---- MODULE Spec2Model ----
(***************************************************************************)
(* A model of hyp3rd/ewrap's two concurrent primitives:                    *)
(*   - CircuitBreaker (threshold.go): the closed/open/half-open gate,      *)
(*   - ErrorGroup and ErrorGroupPool (error_group.go): the pooled          *)
(*     multi-error collector.                                              *)
(* The breaker's observer is the log of the notifications it has received, *)
(* and a callback that transitionTo starts with `go` is one more thread.    *)
(* Every critical section of the code (the span between taking and         *)
(* releasing a lock) is one action; a method that releases its lock and    *)
(* takes it again is several actions, one per critical section, and the    *)
(* caller's position between them is its program counter.                  *)
(***************************************************************************)
EXTENDS Integers, Sequences, FiniteSets, TLC

(***************************************************************************)
(* Bounds of the model.                                                    *)
(***************************************************************************)
\* Callers that may run breaker operations concurrently.
NumCallers == 2
\* Largest maxFailures a breaker is constructed with.
MaxThreshold == 2
\* Largest timeout (in clock ticks) a breaker is constructed with.
MaxTimeout == 1
\* The clock stops ticking here.
MaxNow == 2

\* The breaker changes state while the observer has seen, and the callback
\* has been started for, fewer changes than this.
MaxObserved == 4

\* RecordFailure is called while failureCount is below this.
MaxFailureCount == MaxThreshold + 1

\* Threads that use error groups concurrently.
NumWorkers == 2
\* ErrorGroup instances the pool's New function may mint.
MaxGroups == 1
\* Longest error sequence of a group that concurrent workers share.
MaxShared == 4
\* Longest error sequence of a group that workers serialize.
MaxSerialized == 3
\* Longest error sequence of a group whose ErrorOrNil workers call.
MaxReturned == 2
\* Largest maxAttempts given to WithRetry.
MaxAttemptsGiven == 3
\* IncrementRetry calls made on one error.
MaxIncrements == 4
\* Longest error sequence of a group borrowed from the pool.
MaxPooled == 1
\* sync.Pool stores an instance at most this many times at once.
MaxStored == 2
\* Longest error sequence of a group used by one worker.
MaxErrors == 10
\* Largest initialCapacity a pool is built with.
MaxCapacity == 1
\* Longest error sequence of the group whose backing array is followed.
MaxSliceLen == 5

(***************************************************************************)
(* CircuitState, threshold.go:22-31.                                       *)
(***************************************************************************)
CircuitClosed == "Closed"
CircuitOpen == "Open"
CircuitHalfOpen == "HalfOpen"
CircuitStates == {CircuitClosed, CircuitOpen, CircuitHalfOpen}

NoCall == [op |-> "none", from |-> CircuitClosed, elapsed |-> 0, ret |-> TRUE]

VARIABLES
    \* CircuitBreaker's fields
    maxFailures,    \* configuration: the failure threshold
    timeout,        \* configuration: ticks before an open circuit probes
    failureCount,
    lastFailure,    \* the clock's value at the most recent RecordFailure
    state,
    observer,       \* the observer installed: the no-op one or the caller's
    observed,       \* what the caller's observer has been told: its
                    \* RecordCircuitStateTransition calls, each a (from, to)
    onStateChange,  \* the legacy callback, or Nil
    oldState,       \* transitionTo's local, while its caller is at the go statement
    cbMu,           \* mu: the caller holding the write lock, or Unlocked
    \* the environment of the breaker
    now,            \* the clock (time.Now)
    callers,        \* the threads that call into the breaker
    cbPc,           \* each caller's position inside CanExecute
    cbSeen,         \* per caller: time.Since(lastFailure) as CanExecute read it
    invoked,        \* the callback invocations started, each with its (from, to)
    \* bookkeeping about calls, read by the properties only
    givenObserver,  \* the observer argument of the constructor or of the latest
                    \* SetObserver, Nil when none was given
    lastCall,       \* the call that returned most recently
    failedAt,       \* the clock's value when RecordFailure was last called
    failureCalls,   \* RecordFailure calls since creation or the last recovery
    recovered,      \* whether a HalfOpen -> Closed recovery has happened
    ignoredSuccess, \* a RecordSuccess found the breaker Closed with failures counted,
                    \* since creation or the last recovery
    probing         \* the callers CanExecute admitted to a HalfOpen breaker since
                    \* the last RecordFailure or RecordSuccess

cbVars == <<maxFailures, timeout, failureCount, lastFailure, failedAt, state,
            observed, oldState, onStateChange, observer, givenObserver, cbMu,
            now, callers, cbPc, cbSeen, invoked, lastCall, failureCalls,
            recovered, ignoredSuccess, probing>>

VARIABLES
    \* ErrorGroup's fields, per instance
    egErrors,       \* errors: the sequence of errors
    egPool,         \* pool: the back-reference, ThePool or Nil
    egMu,           \* mu: the worker holding the write lock, or Unlocked
    \* ErrorGroupPool
    allocated,      \* the instances the pool's New function has minted
    poolItems,      \* sync.Pool's content: how many times it holds each instance
    \* the workers
    workers,        \* the threads that use groups
    egPc,           \* each worker's position inside Get, Release or Add
    egRef,          \* the group a worker's variable refers to, or NoGroup
    egArg,          \* Add's argument while Add runs
    egLoaded,       \* the slice value append has read while Add runs
    egLimit,        \* Add is called on sequences shorter than this
    \* bookkeeping, read by the properties only
    dirtyGet,       \* the borrower whose Get emptied a group that held errors
    holders,        \* per instance: workers Get returned it to, until they Release
    lastRelease,    \* what the latest Release call did, "put" or "noop"; "none"
                    \* after a Get
    added,          \* per instance: the arguments of the non-nil Adds since the
                    \* last Clear, in call order
    nilAdded,       \* per instance: Add(nil) was called since the last Clear
    ser,            \* per worker: the ErrorGroupSerialization its ToSerialization
                    \* is building or has returned, and the errors the group
                    \* held when the call took the read lock
    returned        \* per worker: the error its latest ErrorOrNil returned,
                    \* and the errors the group held at that call

egVars == <<egErrors, egPool, egMu, allocated, poolItems, workers, egPc, egRef,
            egArg, egLoaded, egLimit, dirtyGet, holders, lastRelease, added,
            nilAdded, ser, returned>>

VARIABLES
    \* one ErrorGroup as the Go runtime stores it
    slInitial,      \* the initialCapacity its pool was built with
    backing,        \* the array eg.errors points into; its length is cap(eg.errors)
    slLen,          \* len(eg.errors)
    slPool,         \* eg.pool
    got,            \* the slice the latest Errors() call returned to the caller
    \* bookkeeping, read by the properties only
    slAdded,        \* the arguments of the Adds since the last Clear, in call order
    slPanic         \* the pool's New function has panicked

slVars == <<slInitial, backing, slLen, slPool, got, slAdded, slPanic>>

VARIABLES
    \* one *Error and its retry information (pkg/ewrap/retry.go)
    retryInfo,      \* e.metadata["retry_info"]: whether it is there, and its
                    \* MaxAttempts and CurrentAttempt
    errorContext,   \* the Type of e.metadata["error_context"], or none
    \* bookkeeping, read by the properties only
    increments,     \* IncrementRetry calls made on the error
    canRetry,       \* what the latest CanRetry call returned
    lastTrueAt      \* increments at the latest CanRetry that returned true

\* The retry bookkeeping of one *Error.
rtVars == <<retryInfo, errorContext, increments, canRetry, lastTrueAt>>

\* e.metadata without a "retry_info" entry.
NoRetryInfo == [ok |-> FALSE, MaxAttempts |-> 0, CurrentAttempt |-> 0]
\* WithRetry, retry.go:23-36: CurrentAttempt starts at its zero value.
WithRetry(maxAttempts) ==
    [ok |-> TRUE, MaxAttempts |-> maxAttempts, CurrentAttempt |-> 0]

ErrorTypeValidation == "validation"
ErrorTypeInternal == "internal"
NoContext == "none"
NotAsked == "none"
Never == -1

\* New: an error whose CanRetry and IncrementRetry were not called yet.
NewError ==
    /\ increments = 0
    /\ canRetry = NotAsked
    /\ lastTrueAt = Never

NoRetry ==
    /\ retryInfo = NoRetryInfo
    /\ errorContext = NoContext
    /\ NewError

vars == <<cbVars, egVars, slVars, rtVars>>

Callers == 1 .. NumCallers
Workers == 1 .. NumWorkers
Groups == 1 .. MaxGroups

Nil == "nil"
NoGroup == 0
Unlocked == 0
ThePool == "pool"
\* The error values workers add, and the message each one's Error() returns.
ErrA == "errA"
ErrB == "errB"
Errs == {ErrA, ErrB}
Message(e) == IF e = ErrA THEN "a" ELSE "b"

\* A slice header: the slice points into the group's backing array (shares)
\* or into an array of its own, and has a length and a capacity.
NoSlice == [held |-> FALSE, shares |-> FALSE, own |-> <<>>, len |-> 0, cap |-> 0]

\* No group is looked at as slices and arrays: the state of the slice
\* variables in every run but SpecSlice's.
NoSlices ==
    /\ slInitial = 0
    /\ backing = <<>>
    /\ slLen = 0
    /\ slPool = Nil
    /\ got = NoSlice
    /\ slAdded = <<>>
    /\ slPanic = FALSE

\* No group exists: the state of the group variables in a breaker-only run.
\* No ToSerialization call made yet.
NoSerialization ==
    [count |-> 0, length |-> 0, entries |-> <<>>, at |-> <<>>, done |-> FALSE]

\* No ErrorOrNil call made yet.
NotCalled ==
    [called |-> FALSE, nil |-> TRUE, group |-> NoGroup, errs |-> <<>>,
     had |-> <<>>]

NoGroups ==
    /\ ser = [t \in Workers |-> NoSerialization]
    /\ returned = [t \in Workers |-> NotCalled]
    /\ egErrors = [g \in Groups |-> <<>>]
    /\ egPool = [g \in Groups |-> Nil]
    /\ egMu = [g \in Groups |-> Unlocked]
    /\ allocated = {}
    /\ poolItems = [g \in Groups |-> 0]
    /\ workers = {}
    /\ egPc = [t \in Workers |-> "idle"]
    /\ egRef = [t \in Workers |-> NoGroup]
    /\ egArg = [t \in Workers |-> Nil]
    /\ egLoaded = [t \in Workers |-> <<>>]
    /\ dirtyGet = 0
    /\ lastRelease = "none"
    /\ egLimit = 0
    /\ holders = [g \in Groups |-> {}]
    /\ added = [g \in Groups |-> <<>>]
    /\ nilAdded = [g \in Groups |-> FALSE]

\* The observers: the no-op one of the library, and one of the caller's that
\* keeps what it is told.
NoopObserver == "noop"
TheObserver == "observer"
\* An observer of the caller's whose RecordCircuitStateTransition may call a
\* method of the breaker that notifies it.
ReentrantObserver == "reentrant"

\* The observer argument installed as it is.
ObserverAsGiven(given) == given

\* threshold.go:40-42 and 65-67: nil is replaced by the no-op observer.
ObserverOrNoop(given) == IF given = Nil THEN NoopObserver ELSE given

(***************************************************************************)
(* NewCircuitBreakerWithObserver, threshold.go:39-51: Closed, no failure   *)
(* counted, no callback, and the observer given, or the no-op one. The     *)
(* zero lastFailure is never read before a RecordFailure has stamped it.   *)
(***************************************************************************)
NewCircuitBreakerWithObserver(who, given) ==
    /\ maxFailures \in 0 .. MaxThreshold
    /\ timeout \in 0 .. MaxTimeout
    /\ failureCount = 0
    /\ lastFailure = 0
    /\ failedAt = 0
    /\ state = CircuitClosed
    /\ observer = ObserverOrNoop(given)
    /\ observed = <<>>
    /\ onStateChange = Nil
    /\ oldState = CircuitClosed
    /\ cbMu = Unlocked
    /\ now = 0
    /\ callers = who
    /\ cbPc = [t \in Callers |-> "idle"]
    /\ cbSeen = [t \in Callers |-> 0]
    /\ invoked = <<>>
    /\ givenObserver = given
    /\ lastCall = NoCall
    /\ failureCalls = 0
    /\ recovered = FALSE
    /\ ignoredSuccess = FALSE
    /\ probing = {}
    /\ NoGroups
    /\ NoSlices
    /\ NoRetry

\* NewCircuitBreaker, threshold.go:34-36.
NewCircuitBreaker(who) == NewCircuitBreakerWithObserver(who, Nil)

\* sync.RWMutex: Lock and RLock return only while no one holds the write lock.
MuFree == cbMu = Unlocked

\* Where a caller stands when transitionTo has reached its go statement
\* (threshold.go:137) on the way to `return`.
GoLabel(return) == IF return = "idle" THEN "go" ELSE "go_relock"

\* Where a caller stands while the caller's observer runs its
\* RecordCircuitStateTransition (threshold.go:133) on the way to `return`.
NotifyLabel(return) == IF return = "idle" THEN "notify" ELSE "notify_relock"

\* The caller is about to enter a method of the breaker: from its own code,
\* or from inside the observer's notification that it is running.
AtCall(t) == cbPc[t] \in {"idle", "reenter"}

\* The callers between CanExecute's check and its transition, and whether
\* the observer's log and the log of the callbacks started have room for one
\* more change besides theirs: a call that may change the state begins only
\* while they have, so that no call is stopped half-way by the bound
\* MaxObserved.
Upgrading == {u \in callers : cbPc[u] = "upgrade"}
Room(t) ==
    /\ Len(observed) + Cardinality(Upgrading \ {t}) < MaxObserved
    /\ Len(invoked) + Cardinality(Upgrading \ {t}) < MaxObserved

\* cb.observer.RecordCircuitStateTransition(cb.name, oldState, newState),
\* threshold.go:132-134: the caller's observer keeps the pair, the no-op
\* observer does nothing, and a nil observer is not called.
RecordCircuitStateTransition(from, to) ==
    IF observer = NoopObserver THEN observed ELSE Append(observed, <<from, to>>)

\* A transitionTo without the early return of threshold.go:125-127.
transitionToAlways(t, newState, return) ==
    /\ Room(t)
    /\ state' = newState
    /\ observed' = RecordCircuitStateTransition(state, newState)
    /\ IF onStateChange = Nil
          THEN /\ cbPc' = [cbPc EXCEPT ![t] = return]
               /\ UNCHANGED <<cbMu, oldState>>
          ELSE /\ cbPc' = [cbPc EXCEPT ![t] = GoLabel(return)]
               /\ cbMu' = t
               /\ oldState' = state

\* A transitionTo that releases the lock before it tells the observer.
transitionToNotifiesUnlocked(t, newState, return) ==
    IF state = newState
       THEN /\ cbPc' = [cbPc EXCEPT ![t] = return]
            /\ UNCHANGED <<state, observed, oldState, cbMu>>
       ELSE /\ Room(t)
            /\ state' = newState
            /\ observed' = RecordCircuitStateTransition(state, newState)
            /\ cbPc' = [cbPc EXCEPT ![t] = NotifyLabel(return)]
            /\ cbMu' = Unlocked
            /\ oldState' = state

\* A transitionTo that tells the observer nothing.
transitionToUnobserved(t, newState, return) ==
    IF state = newState
       THEN /\ cbPc' = [cbPc EXCEPT ![t] = return]
            /\ UNCHANGED <<state, observed, oldState, cbMu>>
       ELSE /\ state' = newState
            /\ observed' = observed
            /\ IF onStateChange = Nil
                  THEN /\ cbPc' = [cbPc EXCEPT ![t] = return]
                       /\ UNCHANGED <<cbMu, oldState>>
                  ELSE /\ cbPc' = [cbPc EXCEPT ![t] = GoLabel(return)]
                       /\ cbMu' = t
                       /\ oldState' = state

(***************************************************************************)
(* transitionTo, threshold.go:124-139, called by t with the write lock     *)
(* held. A no-op when the state is already newState (125-127). Otherwise   *)
(* the state becomes newState (129-130) and the observer, which is never   *)
(* nil, is told (132-134); with a callback registered (136) t goes on to   *)
(* the go statement, still holding the lock and its local oldState;        *)
(* without one it leaves the critical section and continues at `return`.   *)
(***************************************************************************)
transitionTo(t, newState, return) ==
    IF state = newState
       THEN /\ cbPc' = [cbPc EXCEPT ![t] = return]
            /\ UNCHANGED <<state, observed, oldState, cbMu>>
       ELSE /\ Room(t)
            /\ state' = newState
            /\ observed' = RecordCircuitStateTransition(state, newState)
            /\ IF observer = ReentrantObserver
                  THEN /\ cbPc' = [cbPc EXCEPT ![t] = NotifyLabel(return)]
                       /\ cbMu' = t
                       /\ oldState' = state
                  ELSE IF onStateChange = Nil
                  THEN /\ cbPc' = [cbPc EXCEPT ![t] = return]
                       /\ UNCHANGED <<cbMu, oldState>>
                  ELSE /\ cbPc' = [cbPc EXCEPT ![t] = GoLabel(return)]
                       /\ cbMu' = t
                       /\ oldState' = state

\* The observer's RecordCircuitStateTransition, threshold.go:133, returns to
\* transitionTo, which goes on to the callback test (136): with a callback
\* registered t reaches the go statement, without one it leaves the
\* critical section.
ObserverReturns(t) ==
    /\ cbPc[t] \in {"notify", "notify_relock"}
    /\ LET return == IF cbPc[t] = "notify" THEN "idle" ELSE "relock" IN
       IF onStateChange = Nil
          THEN /\ cbPc' = [cbPc EXCEPT ![t] = return]
               /\ cbMu' = Unlocked
               /\ oldState' = CircuitClosed
          ELSE /\ cbPc' = [cbPc EXCEPT ![t] = GoLabel(return)]
               /\ UNCHANGED <<cbMu, oldState>>
    /\ UNCHANGED <<maxFailures, timeout, failureCount, lastFailure, failedAt,
                   state, observed, onStateChange, observer, givenObserver,
                   now, callers, cbSeen, invoked, lastCall, failureCalls,
                   recovered, ignoredSuccess, probing, egVars, slVars, rtVars>>

\* The observer, inside its RecordCircuitStateTransition, calls a method of
\* the breaker that is notifying it: on t's goroutine, which from now on
\* stands at that method's first statement, the Lock or RLock of cb.mu.
ObserverCalls(t) ==
    /\ cbPc[t] \in {"notify", "notify_relock"}
    /\ cbPc' = [cbPc EXCEPT ![t] = "reenter"]
    /\ UNCHANGED <<maxFailures, timeout, failureCount, lastFailure, failedAt,
                   state, observed, oldState, onStateChange, observer,
                   givenObserver, cbMu, now, callers, cbSeen, invoked,
                   lastCall, failureCalls, recovered, ignoredSuccess, probing,
                   egVars, slVars, rtVars>>

\* The thread on which the first callback started runs: from then on it may
\* call into the breaker like any caller. The callbacks started later never
\* call into the breaker.
CallbackThread == 2
Spawned == {CallbackThread} \ callers

\* A go statement that passes the two states in the wrong order.
CallbackArgsSwapped == <<state, oldState>>

\* The arguments of the callback: the locals oldState and newState; the
\* caller has held the lock since it assigned newState to the state.
CallbackArgs == <<oldState, state>>

\* A dispatch without `go`: t runs the callback itself, inside its critical
\* section.
CallInline(t) ==
    /\ cbPc[t] \in {"go", "go_relock"}
    /\ invoked' = Append(invoked, CallbackArgs)
    /\ oldState' = CircuitClosed
    /\ cbPc' = [cbPc EXCEPT ![t] = "in_callback"]
    /\ UNCHANGED <<maxFailures, timeout, failureCount, lastFailure, failedAt, state,
                   observed, onStateChange, observer, givenObserver, cbMu, now,
                   callers, cbSeen, lastCall, failureCalls, recovered,
                   ignoredSuccess, probing, egVars, slVars, rtVars>>

(***************************************************************************)
(* go cb.onStateChange(cb.name, oldState, newState), threshold.go:137, and *)
(* the end of the critical section (the deferred Unlock of 75 and 88, the  *)
(* Unlock of 109): the callback starts on a goroutine of its own, which    *)
(* from then on is one more thread that may call into the breaker, or do   *)
(* nothing for ever; t waits for nothing, unlocks and continues.           *)
(***************************************************************************)
GoCallback(t) ==
    /\ cbPc[t] \in {"go", "go_relock"}
    /\ invoked' = Append(invoked, CallbackArgs)
    /\ oldState' = CircuitClosed
    /\ callers' = callers \cup Spawned
    /\ cbMu' = Unlocked
    /\ cbPc' = [cbPc EXCEPT ![t] = IF cbPc[t] = "go" THEN "idle" ELSE "relock"]
    /\ UNCHANGED <<maxFailures, timeout, failureCount, lastFailure, failedAt, state,
                   observed, onStateChange, observer, givenObserver, now,
                   cbSeen, lastCall, failureCalls, recovered, ignoredSuccess,
                   probing, egVars, slVars, rtVars>>

\* SetObserver, threshold.go:61-70, one write-locked critical section.
SetObserver(t, given) ==
    /\ AtCall(t)
    /\ MuFree
    /\ observer' = ObserverOrNoop(given)
    /\ givenObserver' = given
    /\ UNCHANGED <<maxFailures, timeout, failureCount, lastFailure, failedAt, state,
                   observed, oldState, onStateChange, cbMu, now, callers, cbPc,
                   cbSeen, invoked, lastCall, failureCalls, recovered,
                   ignoredSuccess, probing, egVars, slVars, rtVars>>

\* OnStateChange, threshold.go:54-58, one write-locked critical section.
TheCallback == "callback"
OnStateChange(t, callback) ==
    /\ AtCall(t)
    /\ MuFree
    /\ onStateChange' = callback
    /\ UNCHANGED <<maxFailures, timeout, failureCount, lastFailure, failedAt, state,
                   observed, oldState, observer, givenObserver, cbMu, now,
                   callers, cbPc, cbSeen, invoked, lastCall, failureCalls,
                   recovered, ignoredSuccess, probing, egVars, slVars, rtVars>>

\* threshold.go:80, the threshold test of RecordFailure.
ThresholdOff(count) == count > maxFailures
ThresholdReached(count) == count >= maxFailures

\* threshold.go:105, time.Since(cb.lastFailure) > cb.timeout.
TimeoutInclusive(elapsed) == elapsed >= timeout
TimeoutExceeded(elapsed) == elapsed > timeout

\* A RecordFailure that stamps lastFailure only while the breaker is Closed,
\* so that an open circuit's timeout runs from the failure that opened it.
RecordFailureStampsClosed(t) ==
    /\ AtCall(t)
    /\ MuFree
    /\ failureCount < MaxFailureCount
    /\ failureCount' = failureCount + 1
    /\ lastFailure' = IF state = CircuitClosed THEN now ELSE lastFailure
    /\ failedAt' = now
    /\ IF state = CircuitClosed /\ ThresholdReached(failureCount')
          THEN transitionTo(t, CircuitOpen, "idle")
          ELSE UNCHANGED <<state, observed, oldState, cbMu, cbPc>>
    /\ lastCall' = [op |-> "RecordFailure", from |-> state,
                    elapsed |-> 0, ret |-> TRUE]
    /\ failureCalls' = failureCalls + 1
    /\ probing' = {}
    /\ UNCHANGED <<maxFailures, timeout, onStateChange, observer,
                   givenObserver, now, callers, cbSeen, invoked, recovered,
                   ignoredSuccess, egVars, slVars, rtVars>>

\* A RecordFailure that counts the failure only while the breaker is Closed.
RecordFailureWhileClosed(t) ==
    /\ AtCall(t)
    /\ MuFree
    /\ failureCount < MaxFailureCount
    /\ failureCount' = IF state = CircuitClosed THEN failureCount + 1 ELSE failureCount
    /\ lastFailure' = now
    /\ failedAt' = now
    /\ IF state = CircuitClosed /\ ThresholdReached(failureCount')
          THEN transitionTo(t, CircuitOpen, "idle")
          ELSE UNCHANGED <<state, observed, oldState, cbMu, cbPc>>
    /\ lastCall' = [op |-> "RecordFailure", from |-> state,
                    elapsed |-> 0, ret |-> TRUE]
    /\ failureCalls' = failureCalls + 1
    /\ probing' = {}
    /\ UNCHANGED <<maxFailures, timeout, onStateChange, observer,
                   givenObserver, now, callers, cbSeen, invoked, recovered,
                   ignoredSuccess, egVars, slVars, rtVars>>

(***************************************************************************)
(* RecordFailure, threshold.go:73-83, one write-locked critical section.   *)
(***************************************************************************)
RecordFailure(t) ==
    /\ AtCall(t)
    /\ MuFree
    /\ failureCount < MaxFailureCount
    /\ failureCount' = failureCount + 1
    /\ lastFailure' = now
    /\ failedAt' = now
    /\ IF state = CircuitClosed /\ ThresholdReached(failureCount')
          THEN transitionTo(t, CircuitOpen, "idle")
          ELSE UNCHANGED <<state, observed, oldState, cbMu, cbPc>>
    /\ lastCall' = [op |-> "RecordFailure", from |-> state,
                    elapsed |-> 0, ret |-> TRUE]
    /\ failureCalls' = failureCalls + 1
    /\ probing' = {}
    /\ UNCHANGED <<maxFailures, timeout, onStateChange, observer,
                   givenObserver, now, callers, cbSeen, invoked, recovered,
                   ignoredSuccess, egVars, slVars, rtVars>>

\* A RecordSuccess that closes the circuit and keeps the old count.
RecordSuccessKeepsCount(t) ==
    /\ AtCall(t)
    /\ MuFree
    /\ IF state = CircuitHalfOpen
          THEN /\ failureCount' = failureCount
               /\ transitionTo(t, CircuitClosed, "idle")
               /\ failureCalls' = 0
               /\ recovered' = TRUE
               /\ ignoredSuccess' = FALSE
          ELSE /\ ignoredSuccess' = (ignoredSuccess \/ (state = CircuitClosed /\ failureCount > 0))
               /\ UNCHANGED <<failureCount, state, observed, oldState, cbMu,
                              cbPc, failureCalls, recovered>>
    /\ lastCall' = [op |-> "RecordSuccess", from |-> state,
                    elapsed |-> 0, ret |-> TRUE]
    /\ probing' = {}
    /\ UNCHANGED <<maxFailures, timeout, lastFailure, failedAt, onStateChange,
                   observer, givenObserver, now, callers, cbSeen, invoked,
                   egVars, slVars, rtVars>>

\* A RecordSuccess that forgives the failures counted so far in every state.
RecordSuccessForgives(t) ==
    /\ AtCall(t)
    /\ MuFree
    /\ failureCount' = 0
    /\ IF state = CircuitHalfOpen
          THEN /\ transitionTo(t, CircuitClosed, "idle")
               /\ failureCalls' = 0
               /\ recovered' = TRUE
               /\ ignoredSuccess' = FALSE
          ELSE /\ ignoredSuccess' = (ignoredSuccess \/ (state = CircuitClosed /\ failureCount > 0))
               /\ UNCHANGED <<state, observed, oldState, cbMu, cbPc,
                              failureCalls, recovered>>
    /\ lastCall' = [op |-> "RecordSuccess", from |-> state,
                    elapsed |-> 0, ret |-> TRUE]
    /\ probing' = {}
    /\ UNCHANGED <<maxFailures, timeout, lastFailure, failedAt, onStateChange,
                   observer, givenObserver, now, callers, cbSeen, invoked,
                   egVars, slVars, rtVars>>

(***************************************************************************)
(* RecordSuccess, threshold.go:86-94, one write-locked critical section.   *)
(***************************************************************************)
RecordSuccess(t) ==
    /\ AtCall(t)
    /\ MuFree
    /\ IF state = CircuitHalfOpen
          THEN /\ failureCount' = 0
               /\ transitionTo(t, CircuitClosed, "idle")
               /\ failureCalls' = 0
               /\ recovered' = TRUE
               /\ ignoredSuccess' = FALSE
          ELSE /\ ignoredSuccess' = (ignoredSuccess \/ (state = CircuitClosed /\ failureCount > 0))
               /\ UNCHANGED <<failureCount, state, observed, oldState, cbMu,
                              cbPc, failureCalls, recovered>>
    /\ lastCall' = [op |-> "RecordSuccess", from |-> state,
                    elapsed |-> 0, ret |-> TRUE]
    /\ probing' = {}
    /\ UNCHANGED <<maxFailures, timeout, lastFailure, failedAt, onStateChange,
                   observer, givenObserver, now, callers, cbSeen, invoked,
                   egVars, slVars, rtVars>>

\* The cases of CanExecute's switch that return at once, threshold.go:102-103
\* and 116-119: true for Closed and for HalfOpen.
OnlyClosedPermits(s) == s = CircuitClosed
Permits(s) == s \in {CircuitClosed, CircuitHalfOpen}

(***************************************************************************)
(* CanExecute, threshold.go:97-121. Three critical sections:               *)
(*   CanExecuteCheck       98-105, 115-120: under the read lock, the       *)
(*                         switch on the state; on the Open branch with    *)
(*                         the timeout exceeded the read lock is released  *)
(*                         (106) and the caller goes on to take the write  *)
(*                         lock;                                           *)
(*   CanExecuteTransition  107-109: under the write lock,                  *)
(*                         transitionTo(CircuitHalfOpen), unconditionally; *)
(*   CanExecuteReturn      110-112: the read lock again, return true.      *)
(***************************************************************************)
CanExecuteCheck(t) ==
    /\ AtCall(t)
    /\ MuFree
    /\ LET elapsed == now - lastFailure IN
       IF state = CircuitOpen /\ TimeoutExceeded(elapsed)
          THEN /\ Room(t)
               /\ cbPc' = [cbPc EXCEPT ![t] = "upgrade"]
               /\ cbSeen' = [cbSeen EXCEPT ![t] = elapsed]
               /\ UNCHANGED <<lastCall, probing>>
          ELSE /\ lastCall' = [op |-> "CanExecute", from |-> state,
                               elapsed |-> IF state = CircuitOpen THEN elapsed ELSE 0,
                               ret |-> Permits(state)]
               /\ probing' = IF state = CircuitHalfOpen /\ Permits(state)
                                THEN probing \cup {t} ELSE probing
               /\ UNCHANGED <<cbPc, cbSeen>>
    /\ UNCHANGED <<maxFailures, timeout, failureCount, lastFailure, failedAt, state,
                   observed, oldState, onStateChange, observer, givenObserver,
                   cbMu, now, callers, invoked, failureCalls, recovered,
                   ignoredSuccess, egVars, slVars, rtVars>>

\* A CanExecute without the RUnlock of threshold.go:106: Lock (107) returns
\* when no read lock is held, and every caller that stands between the
\* check and the transition, this one included, holds one.
CanExecuteLockHoldingRLock(t) ==
    /\ cbPc[t] = "upgrade"
    /\ MuFree
    /\ Upgrading = {}
    /\ transitionTo(t, CircuitHalfOpen, "relock")
    /\ UNCHANGED <<maxFailures, timeout, failureCount, lastFailure, failedAt,
                   onStateChange, observer, givenObserver, now, callers, cbSeen,
                   invoked, lastCall, failureCalls, recovered, ignoredSuccess,
                   probing, egVars, slVars, rtVars>>

CanExecuteTransition(t) ==
    /\ cbPc[t] = "upgrade"
    /\ MuFree
    /\ transitionTo(t, CircuitHalfOpen, "relock")
    /\ UNCHANGED <<maxFailures, timeout, failureCount, lastFailure, failedAt,
                   onStateChange, observer, givenObserver, now, callers,
                   cbSeen, invoked, lastCall, failureCalls, recovered,
                   ignoredSuccess, probing, egVars, slVars, rtVars>>

CanExecuteReturn(t) ==
    /\ cbPc[t] = "relock"
    /\ MuFree
    /\ cbPc' = [cbPc EXCEPT ![t] = "idle"]
    /\ cbSeen' = [cbSeen EXCEPT ![t] = 0]
    /\ lastCall' = [op |-> "CanExecute", from |-> CircuitOpen,
                    elapsed |-> cbSeen[t], ret |-> TRUE]
    /\ probing' = IF state = CircuitHalfOpen THEN probing \cup {t} ELSE probing
    /\ UNCHANGED <<maxFailures, timeout, failureCount, lastFailure, failedAt, state,
                   observed, oldState, onStateChange, observer, givenObserver,
                   cbMu, now, callers, invoked, failureCalls, recovered,
                   ignoredSuccess, egVars, slVars, rtVars>>

\* A clock with a background timer: once the timeout is exceeded the timer
\* itself moves an Open breaker to HalfOpen.
TickWithTimer ==
    /\ now < MaxNow
    /\ now' = now + 1
    /\ state' = IF state = CircuitOpen /\ TimeoutExceeded(now' - lastFailure)
                   THEN CircuitHalfOpen ELSE state
    /\ UNCHANGED <<maxFailures, timeout, failureCount, lastFailure, failedAt,
                   observed, oldState, onStateChange, observer, givenObserver,
                   cbMu, callers, cbPc, cbSeen, invoked, lastCall,
                   failureCalls, recovered, ignoredSuccess, probing, egVars,
                   slVars, rtVars>>

\* Time passes (time.Now advances between critical sections).
Tick ==
    /\ now < MaxNow
    /\ now' = now + 1
    /\ UNCHANGED <<maxFailures, timeout, failureCount, lastFailure, failedAt, state,
                   observed, oldState, onStateChange, observer, givenObserver,
                   cbMu, callers, cbPc, cbSeen, invoked, lastCall,
                   failureCalls, recovered, ignoredSuccess, probing, egVars,
                   slVars, rtVars>>

Next ==
    \/ \E t \in callers : RecordFailure(t)
    \/ \E t \in callers : RecordSuccess(t)
    \/ \E t \in callers : CanExecuteCheck(t)
    \/ \E t \in callers : CanExecuteTransition(t)
    \/ \E t \in callers : CanExecuteReturn(t)
    \/ Tick

\* Any number of callers use one breaker, built with an observer of theirs,
\* concurrently.
Init == NewCircuitBreakerWithObserver(Callers, TheObserver)
Spec == Init /\ [][Next]_vars

\* One caller uses the breaker: every call returns before the next starts.
InitSeq == NewCircuitBreakerWithObserver({1}, TheObserver)
SpecSeq == InitSeq /\ [][Next]_vars

\* One caller uses a breaker and may register a callback on it at any time
\* (until then transitions start none); the first callback that is started
\* may call into the breaker as well.
NextCallback ==
    \/ \E t \in callers : RecordFailure(t)
    \/ \E t \in callers : RecordSuccess(t)
    \/ \E t \in callers : CanExecuteCheck(t)
    \/ \E t \in callers : CanExecuteTransition(t)
    \/ \E t \in callers : CanExecuteReturn(t)
    \/ Tick
    \/ \E t \in callers : OnStateChange(t, TheCallback)
    \/ \E t \in callers : GoCallback(t)

InitCallback == NewCircuitBreakerWithObserver({1}, TheObserver)
SpecCallback == InitCallback /\ [][NextCallback]_vars

\* The breaker is Open with the timeout exceeded, or a probe has already
\* moved it to HalfOpen.
ProbeDue ==
    \/ state = CircuitOpen /\ TimeoutExceeded(now - lastFailure)
    \/ state = CircuitHalfOpen

\* Concurrent callers open a breaker and, from the moment it is Open with
\* the timeout exceeded, call nothing but CanExecute.
NextProbe ==
    \/ \E t \in callers : ~ProbeDue /\ RecordFailure(t)
    \/ \E t \in callers : CanExecuteCheck(t)
    \/ \E t \in callers : CanExecuteTransition(t)
    \/ \E t \in callers : CanExecuteReturn(t)
    \/ Tick

SpecProbe == Init /\ [][NextProbe]_vars

\* Concurrent callers use a breaker built with an observer that may call
\* back into the breaker from its notification; a callback may be
\* registered as well.
NextReentrant ==
    \/ \E t \in callers : RecordFailure(t)
    \/ \E t \in callers : RecordSuccess(t)
    \/ \E t \in callers : CanExecuteCheck(t)
    \/ \E t \in callers : CanExecuteTransition(t)
    \/ \E t \in callers : CanExecuteReturn(t)
    \/ Tick
    \/ \E t \in callers : ObserverReturns(t)
    \/ \E t \in callers : ObserverCalls(t)
    \/ \E t \in callers : OnStateChange(t, TheCallback)
    \/ \E t \in callers : GoCallback(t)

\* The threshold and the timeout are immaterial to the locking and are held
\* at one failure and no delay.
InitReentrant ==
    /\ NewCircuitBreakerWithObserver(Callers, ReentrantObserver)
    /\ maxFailures = 1
    /\ timeout = 0
SpecReentrant == InitReentrant /\ [][NextReentrant]_vars

\* One caller uses a breaker built with an observer or without one, and may
\* replace the observer, or take it away, at any time.
NextObserver ==
    \/ \E t \in callers : RecordFailure(t)
    \/ \E t \in callers : RecordSuccess(t)
    \/ \E t \in callers : CanExecuteCheck(t)
    \/ \E t \in callers : CanExecuteTransition(t)
    \/ \E t \in callers : CanExecuteReturn(t)
    \/ Tick
    \/ \E t \in callers, given \in {Nil, TheObserver} : SetObserver(t, given)

InitObserver == \E given \in {Nil, TheObserver} : NewCircuitBreakerWithObserver({1}, given)
SpecObserver == InitObserver /\ [][NextObserver]_vars

(***************************************************************************)
(* ErrorGroup and ErrorGroupPool, error_group.go.                          *)
(***************************************************************************)

\* The breaker of a run that only uses groups: constructed, never called.
NoBreaker ==
    /\ maxFailures = 0
    /\ timeout = 0
    /\ failureCount = 0
    /\ lastFailure = 0
    /\ failedAt = 0
    /\ state = CircuitClosed
    /\ observer = NoopObserver
    /\ observed = <<>>
    /\ onStateChange = Nil
    /\ oldState = CircuitClosed
    /\ givenObserver = Nil
    /\ cbMu = Unlocked
    /\ now = 0
    /\ callers = {}
    /\ cbPc = [t \in Callers |-> "idle"]
    /\ cbSeen = [t \in Callers |-> 0]
    /\ invoked = <<>>
    /\ lastCall = NoCall
    /\ failureCalls = 0
    /\ recovered = FALSE
    /\ ignoredSuccess = FALSE
    /\ probing = {}

\* The workers at rest, with their variables referring to `ref`.
WorkersAtRest(who, ref, limit) ==
    /\ workers = who
    /\ egLimit = limit
    /\ egPc = [t \in Workers |-> "idle"]
    /\ egRef = [t \in Workers |-> ref]
    /\ egArg = [t \in Workers |-> Nil]
    /\ egLoaded = [t \in Workers |-> <<>>]
    /\ ser = [t \in Workers |-> NoSerialization]
    /\ returned = [t \in Workers |-> NotCalled]
    /\ dirtyGet = 0
    /\ lastRelease = "none"
    /\ added = [g \in Groups |-> <<>>]
    /\ nilAdded = [g \in Groups |-> FALSE]

\* NewErrorGroupPool, error_group.go:30-45: an empty sync.Pool whose New
\* function mints empty groups with no pool reference.
NewErrorGroupPool(who, limit) ==
    /\ egErrors = [g \in Groups |-> <<>>]
    /\ egPool = [g \in Groups |-> Nil]
    /\ egMu = [g \in Groups |-> Unlocked]
    /\ allocated = {}
    /\ poolItems = [g \in Groups |-> 0]
    /\ holders = [g \in Groups |-> {}]
    /\ WorkersAtRest(who, NoGroup, limit)

\* One empty group that every worker refers to: standalone (NewErrorGroup,
\* error_group.go:82-86) or checked out of the pool by worker 1 (Get, 48-61).
OneGroup(who, limit) ==
    /\ egErrors = [g \in Groups |-> <<>>]
    /\ egPool \in { [g \in Groups |-> IF g = 1 THEN p ELSE Nil] : p \in {Nil, ThePool} }
    /\ egMu = [g \in Groups |-> Unlocked]
    /\ allocated = {1}
    /\ poolItems = [g \in Groups |-> 0]
    /\ holders = [g \in Groups |-> IF g = 1 /\ egPool[1] = ThePool THEN {1} ELSE {}]
    /\ WorkersAtRest(who, 1, limit)

\* The workers holding g's read lock: those inside ToSerialization.
Readers(g) ==
    {u \in workers : egRef[u] = g /\ egPc[u] \in {"ser_make", "ser_loop"}}

\* sync.RWMutex.RLock, error_group.go:230: taken while no writer holds it.
WriterFree(g) == egMu[g] = Unlocked

\* ToSerialization without the read lock: writers do not wait for readers.
LockFreeOfWriters(g) == egMu[g] = Unlocked

\* sync.RWMutex.Lock, error_group.go:102 and 168: taken only when free.
LockIgnored(g) == TRUE
LockFree(g) == egMu[g] = Unlocked /\ Readers(g) = {}

(***************************************************************************)
(* Add, error_group.go:97-105. A nil argument returns at once (98-100).    *)
(* Otherwise AddBegin takes the lock and append reads the slice (102-103), *)
(* and AddStore writes the extended slice back and unlocks (103-104).      *)
(***************************************************************************)
\* An Add without the nil test of error_group.go:98-100.
AddNilAppends(t) ==
    /\ egPc[t] = "idle"
    /\ egRef[t] # NoGroup
    /\ LockFree(egRef[t])
    /\ Len(egErrors[egRef[t]]) < egLimit
    /\ nilAdded' = [nilAdded EXCEPT ![egRef[t]] = TRUE]
    /\ egErrors' = [egErrors EXCEPT ![egRef[t]] = Append(@, Nil)]
    /\ UNCHANGED <<egPool, egMu, allocated, poolItems, workers, egPc,
                   egRef, egArg, egLoaded, egLimit,
                   dirtyGet, holders, added, lastRelease>>
    /\ UNCHANGED <<cbVars, slVars, rtVars, ser, returned>>

AddNil(t) ==
    /\ egPc[t] = "idle"
    /\ egRef[t] # NoGroup
    /\ nilAdded' = [nilAdded EXCEPT ![egRef[t]] = TRUE]
    /\ UNCHANGED <<egErrors, egPool, egMu, allocated, poolItems, workers, egPc,
                   egRef, egArg, egLoaded, egLimit,
                   dirtyGet, holders, added, lastRelease>>
    /\ UNCHANGED <<cbVars, slVars, rtVars, ser, returned>>

AddBegin(t, e) ==
    /\ egPc[t] = "idle"
    /\ egRef[t] # NoGroup
    /\ LockFree(egRef[t])
    /\ Len(egErrors[egRef[t]]) < egLimit
    /\ egMu' = [egMu EXCEPT ![egRef[t]] = t]
    /\ egArg' = [egArg EXCEPT ![t] = e]
    /\ egLoaded' = [egLoaded EXCEPT ![t] = egErrors[egRef[t]]]
    /\ egPc' = [egPc EXCEPT ![t] = "add_store"]
    /\ added' = [added EXCEPT ![egRef[t]] = Append(@, e)]
    /\ UNCHANGED <<egErrors, egPool, allocated, poolItems, workers, egRef,
                   egLimit, dirtyGet, holders, nilAdded, lastRelease>>
    /\ UNCHANGED <<cbVars, slVars, rtVars, ser, returned>>

\* What append(eg.errors, err) evaluates to, error_group.go:103.
AppendInFront(loaded, err) == <<err>> \o loaded
AppendTo(loaded, err) == Append(loaded, err)

AddStore(t) ==
    /\ egPc[t] = "add_store"
    /\ egErrors' = [egErrors EXCEPT ![egRef[t]] = AppendTo(egLoaded[t], egArg[t])]
    /\ egMu' = [egMu EXCEPT ![egRef[t]] = Unlocked]
    /\ egArg' = [egArg EXCEPT ![t] = Nil]
    /\ egLoaded' = [egLoaded EXCEPT ![t] = <<>>]
    /\ egPc' = [egPc EXCEPT ![t] = "idle"]
    /\ UNCHANGED <<egPool, allocated, poolItems, workers, egRef, egLimit,
                   dirtyGet, holders, added, nilAdded, lastRelease>>
    /\ UNCHANGED <<cbVars, slVars, rtVars, ser, returned>>

(***************************************************************************)
(* Clear, error_group.go:167-171: under the write lock, errors[:0].        *)
(***************************************************************************)
ClearGroup(g) ==
    /\ LockFree(g)
    /\ egErrors' = [egErrors EXCEPT ![g] = <<>>]
    /\ added' = [added EXCEPT ![g] = <<>>]
    /\ nilAdded' = [nilAdded EXCEPT ![g] = FALSE]

Clear(t) ==
    /\ egPc[t] = "idle"
    /\ egRef[t] # NoGroup
    /\ ClearGroup(egRef[t])
    /\ UNCHANGED <<egPool, egMu, allocated, poolItems, workers, egPc, egRef,
                   egArg, egLoaded, egLimit, dirtyGet, holders, lastRelease>>
    /\ UNCHANGED <<cbVars, slVars, rtVars, ser, returned>>

(***************************************************************************)
(* ToSerialization, error_group.go:229-244: under the read lock, which     *)
(* the deferred RUnlock gives back at the return, ErrorCount and the       *)
(* length of Errors are each len(eg.errors), and the loop fills one entry  *)
(* per element.  The timestamp is left out.                                *)
(***************************************************************************)
\* errA is an *Error made by New, errB a standard error.
IsEwrapError(err) == err = ErrA

\* toSerializableError, error_group.go:190-226, without the stack trace,
\* the metadata and the cause of an *Error.
toSerializableError(err) ==
    IF err = Nil
    THEN [message |-> "", type |-> ""]
    ELSE [message |-> Message(err),
          type |-> IF IsEwrapError(err) THEN "ewrap" ELSE "standard"]

\* eg.errors[i] as the loop reads it; the zero value past the slice's end.
ElementAt(g, i) == IF i <= Len(egErrors[g]) THEN egErrors[g][i] ELSE Nil

\* eg.mu.RLock() and ErrorCount: len(eg.errors), lines 230 and 234.
SerBegin(t) ==
    /\ egPc[t] = "idle"
    /\ egRef[t] # NoGroup
    /\ WriterFree(egRef[t])
    /\ ser' = [ser EXCEPT ![t] = [count |-> Len(egErrors[egRef[t]]),
                                  length |-> 0,
                                  entries |-> <<>>,
                                  at |-> egErrors[egRef[t]],
                                  done |-> FALSE]]
    /\ egPc' = [egPc EXCEPT ![t] = "ser_make"]
    /\ UNCHANGED <<egErrors, egPool, egMu, allocated, poolItems, workers,
                   egRef, egArg, egLoaded, egLimit, dirtyGet, holders,
                   lastRelease, added, nilAdded>>
    /\ UNCHANGED <<cbVars, slVars, rtVars, returned>>

\* make([]SerializableError, len(eg.errors)) and the range expression,
\* lines 236 and 239.
SerMake(t) ==
    /\ egPc[t] = "ser_make"
    /\ ser' = [ser EXCEPT ![t].length = Len(egErrors[egRef[t]])]
    /\ egPc' = [egPc EXCEPT ![t] = "ser_loop"]
    /\ UNCHANGED <<egErrors, egPool, egMu, allocated, poolItems, workers,
                   egRef, egArg, egLoaded, egLimit, dirtyGet, holders,
                   lastRelease, added, nilAdded>>
    /\ UNCHANGED <<cbVars, slVars, rtVars, returned>>

\* serializable.Errors[i] = toSerializableError(err), line 240.
SerStep(t) ==
    /\ egPc[t] = "ser_loop"
    /\ Len(ser[t].entries) < ser[t].length
    /\ ser' = [ser EXCEPT ![t].entries =
                  Append(@, toSerializableError(
                                ElementAt(egRef[t], Len(@) + 1)))]
    /\ UNCHANGED <<egErrors, egPool, egMu, allocated, poolItems, workers,
                   egPc, egRef, egArg, egLoaded, egLimit, dirtyGet, holders,
                   lastRelease, added, nilAdded>>
    /\ UNCHANGED <<cbVars, slVars, rtVars, returned>>

\* return serializable and the deferred eg.mu.RUnlock(), lines 243 and 231.
SerEnd(t) ==
    /\ egPc[t] = "ser_loop"
    /\ Len(ser[t].entries) = ser[t].length
    /\ ser' = [ser EXCEPT ![t].done = TRUE]
    /\ egPc' = [egPc EXCEPT ![t] = "idle"]
    /\ UNCHANGED <<egErrors, egPool, egMu, allocated, poolItems, workers,
                   egRef, egArg, egLoaded, egLimit, dirtyGet, holders,
                   lastRelease, added, nilAdded>>
    /\ UNCHANGED <<cbVars, slVars, rtVars, returned>>

\* ToSerialization running.
Serializing(t) == egPc[t] \in {"ser_make", "ser_loop"}

(***************************************************************************)
(* ErrorGroupPool.Get, error_group.go:48-61.                               *)
(*   GetTake   49, 57: sync.Pool.Get hands over an instance it stores, or  *)
(*             one its New function mints (36-42); eg.pool = p is written  *)
(*             without a lock;                                             *)
(*   GetClear  58-60: eg.Clear() under the group's lock, and the return.   *)
(* A worker calls Get only when it has released what it borrowed; the      *)
(* reference it kept from an earlier Get is overwritten.                   *)
(***************************************************************************)
\* HasErrors, error_group.go:108-113, one read-locked critical section.
HasErrors(g) == Len(egErrors[g]) > 0

FirstUnallocated(g) == g \notin allocated /\ \A h \in Groups : h < g => h \in allocated

GetTake(t) ==
    /\ egPc[t] = "idle"
    /\ \A g \in Groups : t \notin holders[g]
    /\ \E g \in Groups :
          /\ \/ /\ poolItems[g] > 0
                /\ poolItems' = [poolItems EXCEPT ![g] = @ - 1]
                /\ UNCHANGED allocated
             \/ /\ FirstUnallocated(g)
                /\ allocated' = allocated \cup {g}
                /\ UNCHANGED poolItems
          /\ egPool' = [egPool EXCEPT ![g] = ThePool]
          /\ egRef' = [egRef EXCEPT ![t] = g]
    /\ egPc' = [egPc EXCEPT ![t] = "get_clear"]
    /\ lastRelease' = "none"
    /\ UNCHANGED <<egErrors, egMu, workers, egArg, egLoaded, egLimit, dirtyGet,
                   holders, added, nilAdded>>
    /\ UNCHANGED <<cbVars, slVars, rtVars, ser, returned>>

\* A Get that returns the instance as sync.Pool handed it over.
GetSkipsClear(t) ==
    /\ egPc[t] = "get_clear"
    /\ LockFree(egRef[t])
    /\ holders' = [holders EXCEPT ![egRef[t]] = @ \cup {t}]
    /\ dirtyGet' = IF HasErrors(egRef[t]) THEN t ELSE IF dirtyGet = t THEN 0 ELSE dirtyGet
    /\ egPc' = [egPc EXCEPT ![t] = "idle"]
    /\ UNCHANGED <<egErrors, added, nilAdded, egPool, egMu, allocated, poolItems,
                   workers, egRef, egArg, egLoaded, egLimit, lastRelease>>
    /\ UNCHANGED <<cbVars, slVars, rtVars, ser, returned>>

GetClear(t) ==
    /\ egPc[t] = "get_clear"
    /\ ClearGroup(egRef[t])
    /\ holders' = [holders EXCEPT ![egRef[t]] = @ \cup {t}]
    /\ dirtyGet' = IF HasErrors(egRef[t]) THEN t ELSE IF dirtyGet = t THEN 0 ELSE dirtyGet
    /\ egPc' = [egPc EXCEPT ![t] = "idle"]
    /\ UNCHANGED <<egPool, egMu, allocated, poolItems, workers, egRef, egArg,
                   egLoaded, egLimit, lastRelease>>
    /\ UNCHANGED <<cbVars, slVars, rtVars, ser, returned>>

(***************************************************************************)
(* ErrorGroup.Release, error_group.go:90-94, and ErrorGroupPool.put,       *)
(* 64-68. Release reads eg.pool without a lock and returns when it is nil; *)
(* put is three steps: eg.Clear() under the group's lock (65),             *)
(* eg.pool = nil without a lock (66), sync.Pool.Put (67).                  *)
(***************************************************************************)
\* The workers inside put(g). Release is called while the pool stores g,
\* or is about to, fewer than MaxStored times: a bound of the model.
Putting(g) ==
    {u \in workers : egRef[u] = g /\ egPc[u] \in {"put_clear", "put_nil", "put_put"}}

\* A Release without the test of error_group.go:91: it puts every group.
ReleaseAlways(t) ==
    /\ egPc[t] = "idle"
    /\ egRef[t] # NoGroup
    /\ poolItems[egRef[t]] + Cardinality(Putting(egRef[t])) < MaxStored
    /\ holders' = [holders EXCEPT ![egRef[t]] = @ \ {t}]
    /\ dirtyGet' = IF dirtyGet = t THEN 0 ELSE dirtyGet
    /\ egPc' = [egPc EXCEPT ![t] = "put_clear"]
    /\ lastRelease' = "put"
    /\ UNCHANGED <<egErrors, egPool, egMu, allocated, poolItems, workers, egRef,
                   egArg, egLoaded, egLimit, added, nilAdded>>
    /\ UNCHANGED <<cbVars, slVars, rtVars, ser, returned>>

Release(t) ==
    /\ egPc[t] = "idle"
    /\ egRef[t] # NoGroup
    /\ poolItems[egRef[t]] + Cardinality(Putting(egRef[t])) < MaxStored
    /\ holders' = [holders EXCEPT ![egRef[t]] = @ \ {t}]
    /\ dirtyGet' = IF dirtyGet = t THEN 0 ELSE dirtyGet
    /\ egPc' = [egPc EXCEPT ![t] =
                   IF egPool[egRef[t]] # Nil THEN "put_clear" ELSE "idle"]
    /\ lastRelease' = IF egPool[egRef[t]] # Nil THEN "put" ELSE "noop"
    /\ UNCHANGED <<egErrors, egPool, egMu, allocated, poolItems, workers, egRef,
                   egArg, egLoaded, egLimit, added, nilAdded>>
    /\ UNCHANGED <<cbVars, slVars, rtVars, ser, returned>>

PutClear(t) ==
    /\ egPc[t] = "put_clear"
    /\ ClearGroup(egRef[t])
    /\ egPc' = [egPc EXCEPT ![t] = "put_nil"]
    /\ UNCHANGED <<egPool, egMu, allocated, poolItems, workers, egRef, egArg,
                   egLoaded, egLimit, dirtyGet, holders, lastRelease>>
    /\ UNCHANGED <<cbVars, slVars, rtVars, ser, returned>>

\* A put that leaves the pool reference of error_group.go:66 in place.
PutKeepsPool(t) ==
    /\ egPc[t] = "put_nil"
    /\ egPc' = [egPc EXCEPT ![t] = "put_put"]
    /\ UNCHANGED <<egErrors, egPool, egMu, allocated, poolItems, workers,
                   egRef, egArg, egLoaded, egLimit, dirtyGet, holders, added,
                   nilAdded, lastRelease>>
    /\ UNCHANGED <<cbVars, slVars, rtVars, ser, returned>>

PutNil(t) ==
    /\ egPc[t] = "put_nil"
    /\ egPool' = [egPool EXCEPT ![egRef[t]] = Nil]
    /\ egPc' = [egPc EXCEPT ![t] = "put_put"]
    /\ UNCHANGED <<egErrors, egMu, allocated, poolItems, workers, egRef, egArg,
                   egLoaded, egLimit, dirtyGet, holders, added, nilAdded,
                   lastRelease>>
    /\ UNCHANGED <<cbVars, slVars, rtVars, ser, returned>>

PutPut(t) ==
    /\ egPc[t] = "put_put"
    /\ poolItems' = [poolItems EXCEPT ![egRef[t]] = @ + 1]
    /\ egPc' = [egPc EXCEPT ![t] = "idle"]
    /\ UNCHANGED <<egErrors, egPool, egMu, allocated, workers, egRef, egArg,
                   egLoaded, egLimit, dirtyGet, holders, added, nilAdded,
                   lastRelease>>
    /\ UNCHANGED <<cbVars, slVars, rtVars, ser, returned>>

\* sync.Pool may drop a stored instance at any time (garbage collection).
PoolDrop ==
    /\ \E g \in Groups :
          /\ poolItems[g] > 0
          /\ poolItems' = [poolItems EXCEPT ![g] = @ - 1]
    /\ UNCHANGED <<egErrors, egPool, egMu, allocated, workers, egPc, egRef,
                   egArg, egLoaded, egLimit, dirtyGet,
                   holders, added, nilAdded, lastRelease>>
    /\ UNCHANGED <<cbVars, slVars, rtVars, ser, returned>>

(***************************************************************************)
(* The read operations, each one read-locked critical section.             *)
(***************************************************************************)
\* Errors, error_group.go:150-155: slices.Clone, a new slice of the same
\* elements.
Errors(g) == [i \in 1 .. Len(egErrors[g]) |-> egErrors[g][i]]

\* An error value as Join returns it: the nil error, or an aggregate (the
\* joinError of the standard library) wrapping a sequence of errors.
NilError == [nil |-> TRUE, errs |-> <<>>]
Aggregate(errs) == [nil |-> FALSE, errs |-> errs]

\* A Join that wraps the first error of the group only.
JoinFirst(g) ==
    LET kept == SelectSeq(egErrors[g], LAMBDA e : e # Nil) IN
    IF Len(kept) = 0 THEN NilError ELSE Aggregate(<<kept[1]>>)

\* Join, error_group.go:159-164: errors.Join drops nil arguments, returns nil
\* when none is left and otherwise an error wrapping the rest, in order.
Join(g) ==
    LET kept == SelectSeq(egErrors[g], LAMBDA e : e # Nil) IN
    IF Len(kept) = 0 THEN NilError ELSE Aggregate(kept)

\* errors.Is(err, target) for an error Join returned and a target that was
\* created by errors.New: false for the nil error; the aggregate itself is
\* not the target, so the answer is whether one of the errors it unwraps
\* to is identical to the target.
Is(err, target) ==
    /\ ~err.nil
    /\ \E i \in 1 .. Len(err.errs) : err.errs[i] = target

\* fmt's %d of a non-negative int.
Digits == <<"0", "1", "2", "3", "4", "5", "6", "7", "8", "9">>
RECURSIVE Itoa(_)
Itoa(n) == IF n < 10 THEN Digits[n + 1] ELSE Itoa(n \div 10) \o Digits[(n % 10) + 1]

\* The loop of Error, error_group.go:132-134, from index i (0-based) on.
RECURSIVE WriteLinesFromZero(_, _, _)
WriteLinesFromZero(builder, errs, i) ==
    IF i >= Len(errs) THEN builder
    ELSE WriteLinesFromZero(builder \o Itoa(i) \o ": " \o Message(errs[i + 1]) \o "\n",
                            errs, i + 1)
RECURSIVE WriteLines(_, _, _)
WriteLines(builder, errs, i) ==
    IF i >= Len(errs) THEN builder
    ELSE WriteLines(builder \o Itoa(i + 1) \o ": " \o Message(errs[i + 1]) \o "\n",
                    errs, i + 1)

\* Error, error_group.go:116-138.
Error(g) ==
    LET errs == egErrors[g] IN
    CASE Len(errs) = 0 -> ""
      [] Len(errs) = 1 -> Message(errs[1])
      [] OTHER -> WriteLines(Itoa(Len(errs)) \o " errors occurred:\n", errs, 0)

(***************************************************************************)
(* ErrorOrNil, error_group.go:141-147: HasErrors, one read-locked critical *)
(* section, then the group's own pointer or nil.  A returned error is nil, *)
(* or points to a group, or holds errors of its own.                       *)
(***************************************************************************)
\* An error value cut off from the group: a copy of what it holds.
ReturnSnapshot(g) ==
    [called |-> TRUE, nil |-> FALSE, group |-> NoGroup, errs |-> egErrors[g],
     had |-> egErrors[g]]

\* return eg, line 143.
ReturnGroup(g) ==
    [called |-> TRUE, nil |-> FALSE, group |-> g, errs |-> <<>>,
     had |-> egErrors[g]]

\* return nil, line 146.
ReturnNil(g) ==
    [called |-> TRUE, nil |-> TRUE, group |-> NoGroup, errs |-> <<>>,
     had |-> egErrors[g]]

ErrorOrNil(t) ==
    /\ egPc[t] = "idle"
    /\ egRef[t] # NoGroup
    /\ WriterFree(egRef[t])
    /\ returned' = [returned EXCEPT ![t] =
                       IF HasErrors(egRef[t]) THEN ReturnGroup(egRef[t])
                       ELSE ReturnNil(egRef[t])]
    /\ UNCHANGED <<egErrors, egPool, egMu, allocated, poolItems, workers, egPc,
                   egRef, egArg, egLoaded, egLimit, dirtyGet, holders,
                   lastRelease, added, nilAdded, ser>>
    /\ UNCHANGED <<cbVars, slVars, rtVars>>

\* The errors behind the error a worker's ErrorOrNil returned.
ReturnedErrors(t) ==
    IF returned[t].nil THEN <<>>
    ELSE IF returned[t].group # NoGroup THEN egErrors[returned[t].group]
    ELSE returned[t].errs

\* Error() of the error a worker's ErrorOrNil returned, error_group.go:116-138.
ReturnedError(t) ==
    LET errs == ReturnedErrors(t) IN
    CASE Len(errs) = 0 -> ""
      [] Len(errs) = 1 -> Message(errs[1])
      [] OTHER -> WriteLines(Itoa(Len(errs)) \o " errors occurred:\n", errs, 0)

\* A worker holds a non-nil error from ErrorOrNil.
HoldsError(t) == returned[t].called /\ ~returned[t].nil

(***************************************************************************)
(* The specifications of the group and the pool.                           *)
(***************************************************************************)
\* Two workers borrow groups from one pool, add to them and release them;
\* a worker keeps its reference after Release and may go on using it.
NextPool ==
    \/ \E t \in workers : GetTake(t)
    \/ \E t \in workers : GetClear(t)
    \/ \E t \in workers : AddNil(t)
    \/ \E t \in workers : AddBegin(t, ErrA)
    \/ \E t \in workers : AddStore(t)
    \/ \E t \in workers : Release(t)
    \/ \E t \in workers : PutClear(t)
    \/ \E t \in workers : PutNil(t)
    \/ \E t \in workers : PutPut(t)
    \/ PoolDrop

Borrowers == {1, 2}
InitPool == NoBreaker /\ NoSlices /\ NoRetry /\ NewErrorGroupPool(Borrowers, MaxPooled)
SpecPool == InitPool /\ [][NextPool]_vars

\* The error a worker adds to a group it shares: worker 1 adds errA, the
\* others errB.
ErrorOf(t) == IF t = 1 THEN ErrA ELSE ErrB

\* The workers share one group; each adds its own error to it.
NextShared ==
    \/ \E t \in workers : AddNil(t)
    \/ \E t \in workers : AddBegin(t, ErrorOf(t))
    \/ \E t \in workers : AddStore(t)
    \/ \E t \in workers : Clear(t)

InitShared == NoBreaker /\ NoSlices /\ NoRetry /\ OneGroup(Workers, MaxShared)
SpecShared == InitShared /\ [][NextShared]_vars

\* The workers share one group, standalone or got from a pool, which they
\* add to, clear and release, and go on using after that.
NextReuse ==
    \/ \E t \in workers : AddNil(t)
    \/ \E t \in workers : AddBegin(t, ErrorOf(t))
    \/ \E t \in workers : AddStore(t)
    \/ \E t \in workers : Clear(t)
    \/ \E t \in workers : Release(t)
    \/ \E t \in workers : PutClear(t)
    \/ \E t \in workers : PutNil(t)
    \/ \E t \in workers : PutPut(t)

InitReuse == NoBreaker /\ NoSlices /\ NoRetry /\ OneGroup(Workers, MaxShared)
SpecReuse == InitReuse /\ [][NextReuse]_vars

\* Two workers share one group, which they add to, clear and serialize.
NextSerial ==
    \/ \E t \in workers : AddBegin(t, ErrorOf(t))
    \/ \E t \in workers : AddStore(t)
    \/ \E t \in workers : Clear(t)
    \/ \E t \in workers : SerBegin(t)
    \/ \E t \in workers : SerMake(t)
    \/ \E t \in workers : SerStep(t)
    \/ \E t \in workers : SerEnd(t)

InitSerial ==
    /\ NoBreaker /\ NoSlices /\ NoRetry /\ OneGroup(Borrowers, MaxSerialized)
    /\ egPool[1] = Nil
SpecSerial == InitSerial /\ [][NextSerial]_vars

\* Two workers share one group, standalone or got from a pool, which they
\* add to, clear and release, and whose ErrorOrNil they call and keep.
NextOrNil ==
    \/ \E t \in workers : AddBegin(t, ErrorOf(t))
    \/ \E t \in workers : AddStore(t)
    \/ \E t \in workers : Clear(t)
    \/ \E t \in workers : Release(t)
    \/ \E t \in workers : PutClear(t)
    \/ \E t \in workers : PutNil(t)
    \/ \E t \in workers : PutPut(t)
    \/ \E t \in workers : ErrorOrNil(t)

InitOrNil == NoBreaker /\ NoSlices /\ NoRetry /\ OneGroup(Borrowers, MaxReturned)
SpecOrNil == InitOrNil /\ [][NextOrNil]_vars

\* One worker uses one group and adds any error to it.
NextGroup ==
    \/ \E t \in workers : AddNil(t)
    \/ \E t \in workers, e \in Errs : AddBegin(t, e)
    \/ \E t \in workers : AddStore(t)
    \/ \E t \in workers : Clear(t)

InitGroup == NoBreaker /\ NoSlices /\ NoRetry /\ OneGroup({1}, MaxErrors)
SpecGroup == InitGroup /\ [][NextGroup]_vars

(***************************************************************************)
(* Progress. A run uses a breaker with threshold 1 and no timeout, from    *)
(* two threads that may register a callback and call SetObserver(nil) at   *)
(* any time, or one pooled group, from two workers that add to it and      *)
(* release it. The scheduler lets every thread run, and the locks starve   *)
(* no one (sync.Mutex hands the lock to a waiter that has waited too       *)
(* long): a call that has begun takes its next step if that step needs no  *)
(* lock (weak fairness), or if the lock it needs is free again and again   *)
(* (strong fairness). Nothing obliges a thread to begin a call.            *)
(***************************************************************************)
LiveCallers == {1, CallbackThread}

NextLive ==
    \/ \E t \in callers : RecordFailure(t)
    \/ \E t \in callers : RecordSuccess(t)
    \/ \E t \in callers : CanExecuteCheck(t)
    \/ \E t \in callers : CanExecuteTransition(t)
    \/ \E t \in callers : CanExecuteReturn(t)
    \/ Tick
    \/ \E t \in callers : OnStateChange(t, TheCallback)
    \/ \E t \in callers : GoCallback(t)
    \/ \E t \in callers : SetObserver(t, Nil)
    \/ \E t \in workers : AddNil(t)
    \/ \E t \in workers : AddBegin(t, ErrorOf(t))
    \/ \E t \in workers : AddStore(t)
    \/ \E t \in workers : Release(t)
    \/ \E t \in workers : PutClear(t)
    \/ \E t \in workers : PutNil(t)
    \/ \E t \in workers : PutPut(t)

InitLive ==
    \/ /\ NewCircuitBreaker(LiveCallers)
       /\ maxFailures = 1
       /\ timeout = 0
    \/ /\ NoBreaker
       /\ NoSlices
       /\ NoRetry
       /\ OneGroup(Borrowers, MaxPooled)

FairLive ==
    /\ \A t \in LiveCallers :
          /\ SF_vars(CanExecuteTransition(t))
          /\ SF_vars(CanExecuteReturn(t))
          /\ WF_vars(GoCallback(t))
    /\ \A t \in Borrowers :
          /\ WF_vars(AddStore(t))
          /\ SF_vars(PutClear(t))
          /\ WF_vars(PutNil(t))
          /\ WF_vars(PutPut(t))

SpecLive == InitLive /\ [][NextLive]_vars /\ FairLive

(***************************************************************************)
(* One ErrorGroup as the Go runtime stores it. eg.errors is a slice: a     *)
(* window of slLen elements onto the array `backing`, whose length is the  *)
(* slice's capacity. One worker uses the group, so every call is one step. *)
(***************************************************************************)
\* error_group.go:17.
poolCapacity == 4

\* A NewErrorGroupPool that passes initialCapacity on as it is.
CapacityAsGiven(initialCapacity) == initialCapacity

\* NewErrorGroupPool, error_group.go:31-33: the capacity the pool's New
\* function makes slices with.
CorrectedCapacity(initialCapacity) ==
    IF initialCapacity < 0 THEN poolCapacity ELSE initialCapacity

\* make([]error, 0, capacity), error_group.go:39: an array of nil elements;
\* it panics when the capacity is negative.
Make(capacity) == [i \in 1 .. capacity |-> Nil]
MakePanics(capacity) == capacity < 0

\* The elements of eg.errors, and of the slice Errors() returned.
SliceErrors == SubSeq(backing, 1, slLen)
GotErrors == SubSeq(IF got.shares THEN backing ELSE got.own, 1, got.len)

\* The capacity append gives the array it allocates when the old one is
\* full (the runtime doubles small slices).
GrownCapacity(capacity) == IF capacity = 0 THEN 1 ELSE 2 * capacity

\* The group of the first Get (error_group.go:48-61) on a pool built by
\* NewErrorGroupPool(slInitial): minted by New (36-42), given its pool
\* reference (57) and cleared (58).
InitSlice ==
    /\ NoBreaker
    /\ NoGroups
    /\ NoRetry
    /\ slInitial \in -1 .. MaxCapacity
    /\ slPanic = MakePanics(CorrectedCapacity(slInitial))
    /\ backing = Make(CorrectedCapacity(slInitial))
    /\ slLen = 0
    /\ slPool = ThePool
    /\ got = NoSlice
    /\ slAdded = <<>>

\* Add, error_group.go:97-105: append writes behind the last element when
\* the array has room, and otherwise copies the elements to a larger array
\* of its own; a slice that pointed into the old array keeps pointing there.
AddSlice(e) ==
    /\ ~slPanic
    /\ slLen < MaxSliceLen
    /\ IF slLen < Len(backing)
          THEN /\ backing' = [backing EXCEPT ![slLen + 1] = e]
               /\ got' = got
          ELSE /\ backing' = [i \in 1 .. GrownCapacity(Len(backing)) |->
                                 IF i <= slLen THEN backing[i]
                                 ELSE IF i = slLen + 1 THEN e ELSE Nil]
               /\ got' = IF got.shares
                            THEN [got EXCEPT !.shares = FALSE,
                                             !.own = SubSeq(backing, 1, got.cap)]
                            ELSE got
    /\ slLen' = slLen + 1
    /\ slAdded' = Append(slAdded, e)
    /\ UNCHANGED <<slInitial, slPool, slPanic, cbVars, egVars, rtVars>>

\* A Clear that cuts the slice to its first element.
ClearSliceKeepsFirst ==
    /\ ~slPanic
    /\ slLen' = IF slLen > 1 THEN 1 ELSE slLen
    /\ slAdded' = <<>>
    /\ UNCHANGED <<slInitial, backing, slPool, got, slPanic, cbVars, egVars, rtVars>>

\* Clear, error_group.go:167-171: eg.errors[:0] keeps the array.
ClearSlice ==
    /\ ~slPanic
    /\ slLen' = 0
    /\ slAdded' = <<>>
    /\ UNCHANGED <<slInitial, backing, slPool, got, slPanic, cbVars, egVars, rtVars>>

\* Release, error_group.go:90-94, and put, 64-68.
ReleaseSlice ==
    /\ ~slPanic
    /\ IF slPool # Nil
          THEN /\ slLen' = 0
               /\ slAdded' = <<>>
               /\ slPool' = Nil
          ELSE UNCHANGED <<slLen, slAdded, slPool>>
    /\ UNCHANGED <<slInitial, backing, got, slPanic, cbVars, egVars, rtVars>>

\* Get, error_group.go:48-61, handing out the released group again.
GetSlice ==
    /\ ~slPanic
    /\ slPool = Nil
    /\ slPool' = ThePool
    /\ slLen' = 0
    /\ slAdded' = <<>>
    /\ UNCHANGED <<slInitial, backing, got, slPanic, cbVars, egVars, rtVars>>

\* An Errors that returns eg.errors itself.
NoClone(array, len) ==
    [held |-> TRUE, shares |-> TRUE, own |-> <<>>, len |-> len, cap |-> Len(array)]

\* slices.Clone, error_group.go:154: append(s[:0:0], s...), a slice onto a
\* new array holding the elements; for an empty s it is s[:0:0], which
\* points where s does and has no capacity.
Clone(array, len) ==
    IF len = 0
       THEN [held |-> TRUE, shares |-> TRUE, own |-> <<>>, len |-> 0, cap |-> 0]
       ELSE [held |-> TRUE, shares |-> FALSE, own |-> SubSeq(array, 1, len),
             len |-> len, cap |-> len]

\* Errors, error_group.go:150-155.
ErrorsSlice ==
    /\ ~slPanic
    /\ got' = Clone(backing, slLen)
    /\ UNCHANGED <<slInitial, backing, slLen, slPool, slAdded, slPanic, cbVars,
                   egVars, rtVars>>

\* The caller overwrites the first element of the slice Errors() returned
\* with nil.
MutateGot ==
    /\ got.held
    /\ got.len >= 1
    /\ IF got.shares
          THEN /\ backing' = [backing EXCEPT ![1] = Nil]
               /\ got' = got
          ELSE /\ got' = [got EXCEPT !.own[1] = Nil]
               /\ backing' = backing
    /\ UNCHANGED <<slInitial, slLen, slPool, slAdded, slPanic, cbVars, egVars, rtVars>>

NextSlice ==
    \/ \E e \in Errs : AddSlice(e)
    \/ ClearSlice
    \/ ReleaseSlice
    \/ GetSlice
    \/ ErrorsSlice
    \/ MutateGot

SpecSlice == InitSlice /\ [][NextSlice]_vars

(***************************************************************************)
(* Retry bookkeeping of an *Error, pkg/ewrap/retry.go.  CanRetry runs      *)
(* under e.mu.RLock and IncrementRetry under e.mu.Lock, so each is one     *)
(* step.  Delay and LastAttempt are left out.                              *)
(***************************************************************************)
\* defaultShouldRetry, retry.go:39-49.
defaultShouldRetry(context) == context # ErrorTypeValidation

\* The comparison of retry.go:62 with <= for <.
AttemptsLeftInclusive(info) == info.CurrentAttempt <= info.MaxAttempts

\* retryInfo.CurrentAttempt < retryInfo.MaxAttempts, retry.go:62.
AttemptsLeft(info) == info.CurrentAttempt < info.MaxAttempts

\* CanRetry, retry.go:52-64.
CanRetry ==
    /\ canRetry' = IF ~retryInfo.ok THEN "false"
                   ELSE IF AttemptsLeft(retryInfo)
                           /\ defaultShouldRetry(errorContext)
                        THEN "true" ELSE "false"
    /\ lastTrueAt' = IF canRetry' = "true" THEN increments ELSE lastTrueAt
    /\ UNCHANGED <<retryInfo, errorContext, increments>>
    /\ UNCHANGED <<cbVars, egVars, slVars>>

\* IncrementRetry, retry.go:67-75.
IncrementRetry ==
    /\ increments < MaxIncrements
    /\ increments' = increments + 1
    /\ retryInfo' = IF retryInfo.ok
                    THEN [retryInfo EXCEPT !.CurrentAttempt = @ + 1]
                    ELSE retryInfo
    /\ UNCHANGED <<errorContext, canRetry, lastTrueAt>>
    /\ UNCHANGED <<cbVars, egVars, slVars>>

\* One error, made with or without WithRetry(M, d) and with or without an
\* error context, on which CanRetry and IncrementRetry are called.
NextRetry == CanRetry \/ IncrementRetry

InitRetry ==
    /\ NoBreaker /\ NoGroups /\ NoSlices
    /\ retryInfo \in {NoRetryInfo} \cup
                     {WithRetry(m) : m \in -1 .. MaxAttemptsGiven}
    /\ errorContext \in {NoContext, ErrorTypeInternal, ErrorTypeValidation}
    /\ NewError
SpecRetry == InitRetry /\ [][NextRetry]_vars

\* WithRetry and the default predicate on an error that is no validation
\* error.
Retryable == retryInfo.ok /\ errorContext # ErrorTypeValidation

(***************************************************************************)
(* Properties of the circuit breaker.                                      *)
(***************************************************************************)

\* The edges of section 4.2: Closed -> Open -> HalfOpen -> Closed | Open.
DefinedEdges ==
    { <<CircuitClosed, CircuitOpen>>, <<CircuitOpen, CircuitHalfOpen>>,
      <<CircuitHalfOpen, CircuitClosed>>, <<CircuitHalfOpen, CircuitOpen>> }

\* C1: under any interleaving of RecordFailure, RecordSuccess and CanExecute
\* the state changes only along the defined edges; in particular never
\* directly from Closed to HalfOpen nor from Open to Closed.
C1_OnlyDefinedEdges ==
    [][state' # state => <<state, state'>> \in DefinedEdges]_vars

\* No call is in flight: lastCall is the call that ran last, and the state
\* is the one it left.
AllReturned == \A t \in callers : cbPc[t] = "idle"

\* C2: a breaker with maxFailures = N >= 1 that has not yet recovered is
\* Closed, and CanExecute returns true, while fewer than N RecordFailure
\* calls were made; when the N-th RecordFailure returns the state is Open,
\* and a CanExecute that then finds the timeout not elapsed returns false.
C2_Threshold ==
    (maxFailures >= 1 /\ ~recovered /\ AllReturned) =>
        /\ failureCalls < maxFailures =>
              /\ state = CircuitClosed
              /\ lastCall.op = "CanExecute" => lastCall.ret = TRUE
        /\ (failureCalls = maxFailures /\ lastCall.op = "RecordFailure") =>
              state = CircuitOpen
        /\ ( /\ failureCalls = maxFailures
             /\ lastCall.op = "CanExecute"
             /\ lastCall.from = CircuitOpen
             /\ lastCall.elapsed <= timeout ) =>
              (lastCall.ret = FALSE /\ state = CircuitOpen)

\* The N-th failure of a breaker with N = 2 was followed by a refused
\* CanExecute.
C2_Witness ==
    /\ AllReturned
    /\ maxFailures = 2 /\ ~recovered /\ failureCalls = 2
    /\ lastCall.op = "CanExecute" /\ lastCall.ret = FALSE
    /\ state = CircuitOpen

\* C3: a CanExecute that finds the breaker Open returns true and leaves
\* the state HalfOpen when more than timeout has elapsed since lastFailure;
\* otherwise it returns false and the state stays Open.
C3_Recovery ==
    (lastCall.op = "CanExecute" /\ lastCall.from = CircuitOpen /\ AllReturned) =>
        IF lastCall.elapsed > timeout
           THEN lastCall.ret = TRUE /\ state = CircuitHalfOpen
           ELSE lastCall.ret = FALSE /\ state = CircuitOpen

\* A CanExecute found the breaker Open with the timeout exceeded.
C3_Witness ==
    /\ AllReturned
    /\ lastCall.op = "CanExecute" /\ lastCall.from = CircuitOpen
    /\ timeout = 1 /\ lastCall.elapsed = 2
    /\ state = CircuitHalfOpen

\* C4: a RecordSuccess that finds the breaker HalfOpen leaves failureCount 0
\* and the state Closed; a recovered breaker (maxFailures = N >= 1) is
\* Closed while fewer than N RecordFailure calls followed the recovery and
\* Open when the N-th of them returns.
C4_Closing ==
    /\ ( /\ lastCall.op = "RecordSuccess"
         /\ lastCall.from = CircuitHalfOpen
         /\ AllReturned ) =>
          (failureCount = 0 /\ state = CircuitClosed)
    /\ (recovered /\ maxFailures >= 1 /\ AllReturned) =>
          /\ failureCalls < maxFailures => state = CircuitClosed
          /\ (failureCalls = maxFailures /\ lastCall.op = "RecordFailure") =>
                state = CircuitOpen

\* A recovered breaker with N = 2 has opened again on its second failure.
C4_Witness ==
    /\ AllReturned
    /\ recovered /\ maxFailures = 2 /\ failureCalls = 2
    /\ lastCall.op = "RecordFailure" /\ state = CircuitOpen

\* C5: a RecordFailure that finds the breaker HalfOpen and leaves
\* failureCount >= maxFailures returns the breaker to Open.
C5_FailedProbeReopens ==
    ( /\ maxFailures >= 1
      /\ lastCall.op = "RecordFailure"
      /\ lastCall.from = CircuitHalfOpen
      /\ AllReturned
      /\ failureCount >= maxFailures ) =>
        state = CircuitOpen

\* C12: CanExecute changes the state to HalfOpen only if, when it holds the
\* write lock, the state is still Open and more than timeout has still
\* passed since lastFailure: a RecordFailure or a recovery between its check
\* and its transition prevents the transition.
C12_Revalidates ==
    [][\A t \in Callers :
          (cbPc[t] = "upgrade" /\ cbPc'[t] # "upgrade" /\ state' # state) =>
              /\ state = CircuitOpen
              /\ TimeoutExceeded(now - lastFailure)]_vars

\* C13: the callback is dispatched fire-and-forget: the step that starts a
\* callback leaves the breaker's lock free and the triggering caller past
\* its critical section, and the lock is never held by a caller that is
\* anywhere but at the go statement; so a callback that never returns, or
\* that calls into the breaker itself, blocks no operation.
C13_FireAndForget ==
    [][/\ Len(invoked') > Len(invoked) =>
             /\ cbMu' = Unlocked
             /\ \A t \in Callers :
                   cbPc[t] \in {"go", "go_relock"} => cbPc'[t] \in {"idle", "relock"}
       /\ cbMu' # Unlocked => cbPc'[cbMu'] \in {"go", "go_relock"}]_vars

\* A callback, started when the caller's failure opened the breaker and
\* still running, has itself called CanExecute after the timeout: its call
\* moved the breaker to HalfOpen, started a second callback and returned.
C13_Witness ==
    /\ callers = {1, CallbackThread}
    /\ onStateChange = TheCallback
    /\ invoked = << <<CircuitClosed, CircuitOpen>>, <<CircuitOpen, CircuitHalfOpen>> >>
    /\ probing = {CallbackThread}
    /\ lastCall.op = "CanExecute" /\ lastCall.from = CircuitOpen /\ lastCall.ret
    /\ AllReturned
    /\ MuFree

\* C14: a transitionTo(s) that finds the state already s changes no field,
\* tells the observer nothing and starts no callback; so every observer
\* notification and every callback invocation carries from # to.
C14_NoOpTransition ==
    [][/\ \A t \in Callers :
             (cbPc[t] = "upgrade" /\ cbPc'[t] # "upgrade" /\ state = CircuitHalfOpen) =>
                 /\ cbPc'[t] = "relock"
                 /\ UNCHANGED <<state, failureCount, lastFailure, observed,
                                oldState, onStateChange, observer,
                                givenObserver, cbMu, invoked>>
       /\ \A i \in 1 .. Len(observed') : observed'[i][1] # observed'[i][2]
       /\ \A i \in 1 .. Len(invoked') : invoked'[i][1] # invoked'[i][2]]_vars

\* With a callback registered, two threads have run CanExecute's transition
\* on an open breaker, and the observer and the callback were told of one
\* change to HalfOpen.
C14_Witness ==
    /\ onStateChange = TheCallback
    /\ cbPc[1] = "relock" /\ cbPc[2] = "relock"
    /\ state = CircuitHalfOpen
    /\ observed = << <<CircuitClosed, CircuitOpen>>, <<CircuitOpen, CircuitHalfOpen>> >>
    /\ invoked = observed

\* The transitions of one failure, one probe after the timeout and one
\* success.
OneRecovery ==
    << <<CircuitClosed, CircuitOpen>>, <<CircuitOpen, CircuitHalfOpen>>,
       <<CircuitHalfOpen, CircuitClosed>> >>

\* C15: the observer receives one (from, to) per state change, in the step
\* that changes the state and so before the operation returns, and nothing
\* otherwise; each notification's from is the previous one's to, Closed for
\* the first; a breaker with threshold 1 whose third change is a recovery
\* has notified (Closed,Open), (Open,HalfOpen), (HalfOpen,Closed).
C15_ObserverOrder ==
    [][/\ IF state' # state
             THEN observed' = Append(observed, <<state, state'>>)
             ELSE observed' = observed
       /\ \A i \in 1 .. Len(observed') :
             observed'[i][1] = IF i = 1 THEN CircuitClosed ELSE observed'[i - 1][2]
       /\ ( /\ maxFailures = 1
            /\ Len(observed') = 3
            /\ lastCall'.op = "RecordSuccess"
            /\ lastCall'.from = CircuitHalfOpen ) => observed' = OneRecovery]_vars

\* RecordFailure on a breaker with threshold 1, the timeout, CanExecute and
\* RecordSuccess have run, and the observer has the three transitions.
C15_Witness ==
    /\ maxFailures = 1
    /\ timeout = 1
    /\ AllReturned
    /\ failureCalls = 0 /\ recovered
    /\ lastCall.op = "RecordSuccess" /\ lastCall.from = CircuitHalfOpen
    /\ observed = OneRecovery

\* C17: a RecordSuccess that finds the breaker Closed or Open changes neither
\* state, failureCount nor lastFailure and notifies no one; successes forgive
\* no failure: failureCount is the number of RecordFailure calls since
\* creation or the last recovery, so once N = maxFailures of them were made,
\* with successes in between or not, the breaker is no longer Closed.
C17_SuccessForgivesNothing ==
    [][/\ ( /\ lastCall' # lastCall
            /\ lastCall'.op = "RecordSuccess"
            /\ lastCall'.from \in {CircuitClosed, CircuitOpen} ) =>
               UNCHANGED <<state, failureCount, lastFailure, observed,
                           oldState, invoked>>
       /\ failureCount' = failureCalls'
       /\ (maxFailures >= 1 /\ failureCalls' >= maxFailures) =>
               state' # CircuitClosed]_vars

\* One failure, a success that found the breaker Closed, and the second
\* failure have opened a breaker with maxFailures = 2.
C17_Witness ==
    /\ AllReturned
    /\ maxFailures = 2 /\ ~recovered
    /\ ignoredSuccess
    /\ failureCalls = 2 /\ failureCount = 2
    /\ lastCall.op = "RecordFailure" /\ lastCall.from = CircuitClosed
    /\ state = CircuitOpen

C19_SingleProbe ==
    state = CircuitHalfOpen => Cardinality(probing) <= 1

\* C25: on a fresh breaker with a threshold of at least one, once
\* maxFailures or more RecordFailure calls have run, concurrently with any
\* number of CanExecute calls, all calls have returned and no more than
\* timeout has passed since the last failure, the state is Open. (No
\* recovery has happened: a RecordSuccess, if any ran, found the breaker
\* Closed or Open and changed no field.)
C25_ConcurrentFailuresOpen ==
    ( /\ AllReturned
      /\ ~recovered
      /\ maxFailures >= 1
      /\ failureCalls >= maxFailures
      /\ ~TimeoutExceeded(now - lastFailure) ) =>
        state = CircuitOpen

\* The (Open, HalfOpen) notifications in the observer's log.
ProbeNotifications ==
    {i \in 1 .. Len(observed) : observed[i] = <<CircuitOpen, CircuitHalfOpen>>}

C23_UsableObserver ==
    [][/\ observer \in {NoopObserver, TheObserver}
       /\ observer' \in {NoopObserver, TheObserver}
       /\ givenObserver = Nil => observer = NoopObserver
       /\ givenObserver' = Nil => observer' = NoopObserver
       /\ (observer = NoopObserver /\ state' # state) =>
             /\ observed' = observed
             /\ cbMu' = Unlocked
             /\ \A t \in callers : cbPc'[t] \in {"idle", "relock"}]_vars

\* The breaker was built with an observer, which saw it open; then
\* SetObserver(nil) was called, and the probe that moved the breaker to
\* HalfOpen was reported to nobody.
C23_Witness ==
    /\ AllReturned
    /\ givenObserver = Nil
    /\ observer = NoopObserver
    /\ observed = << <<CircuitClosed, CircuitOpen>> >>
    /\ state = CircuitHalfOpen

\* C24: every call on a breaker (RecordFailure, RecordSuccess, CanExecute,
\* SetObserver, OnStateChange) and every Add and Release on a group returns,
\* holding no lock, under any fair interleaving of concurrent callers: a
\* call that is under way, holding a lock or between two critical sections
\* as on CanExecute's path through the write lock, gets to its end, where
\* its caller holds no lock; so every lock that is held is released, and
\* the calls waiting for it begin.
C24_Termination ==
    /\ \A t \in LiveCallers : cbPc[t] # "idle" ~> (cbPc[t] = "idle" /\ cbMu # t)
    /\ \A t \in Borrowers :
          egPc[t] # "idle" ~> (egPc[t] = "idle" /\ \A g \in Groups : egMu[g] # t)

\* A CanExecute that has released its read lock waits for the write lock,
\* which another caller holds at the go statement of its transition.
C24_Witness ==
    /\ cbPc[1] = "upgrade"
    /\ cbPc[CallbackThread] \in {"go", "go_relock"}
    /\ cbMu = CallbackThread

\* C29: RecordFailure adds exactly one to failureCount and stamps
\* lastFailure with the current time whatever the state, Closed, Open or
\* HalfOpen; only RecordFailure and the HalfOpen -> Closed recovery, which
\* resets it to zero, change failureCount, and only RecordFailure changes
\* lastFailure; so under any interleaving failureCount is the number of
\* RecordFailure calls completed since creation or the last recovery.
C29_CountsEveryFailure ==
    [][/\ failureCalls' = failureCalls + 1 =>
             /\ lastCall'.op = "RecordFailure"
             /\ lastCall'.from = state
             /\ failureCount' = failureCount + 1
             /\ lastFailure' = now
       /\ failureCount' # failureCount =>
             \/ failureCalls' = failureCalls + 1
             \/ /\ state = CircuitHalfOpen
                /\ state' = CircuitClosed
                /\ failureCount' = 0
       /\ (state = CircuitHalfOpen /\ state' = CircuitClosed) =>
             failureCount' = 0 /\ failureCalls' = 0
       /\ lastFailure' # lastFailure => failureCalls' = failureCalls + 1
       /\ failureCount' = failureCalls']_vars

\* A breaker with threshold 1 has counted three failures: the one that
\* opened it, one while Open and, after a probe, one while HalfOpen.
C29_Witness ==
    /\ AllReturned
    /\ maxFailures = 1
    /\ state = CircuitHalfOpen
    /\ lastCall.op = "RecordFailure" /\ lastCall.from = CircuitHalfOpen
    /\ failureCount = 3
    /\ lastFailure = now
    /\ ~recovered

\* C30: the recovery timeout runs from the most recent RecordFailure, not
\* from the opening: a RecordFailure while Open refreshes lastFailure, the
\* breaker leaves Open only through a CanExecute, and a CanExecute sets out
\* to move it only when its check finds more than timeout passed since the
\* most recent RecordFailure; so while RecordFailure keeps arriving at
\* intervals of at most timeout the breaker stays Open and every
\* CanExecute that begins, however many are made, returns false.
C30_TimeoutFromLastFailure ==
    [][/\ lastFailure' = failedAt'
       /\ (failureCalls' = failureCalls + 1 /\ state = CircuitOpen) =>
             lastFailure' = now /\ state' = CircuitOpen
       /\ \A t \in Callers :
             (cbPc[t] # "upgrade" /\ cbPc'[t] = "upgrade") =>
                 state = CircuitOpen /\ now - failedAt > timeout
       /\ (state = CircuitOpen /\ state' # CircuitOpen) =>
             \E t \in Callers : cbPc[t] = "upgrade" /\ cbPc'[t] = "relock"
       /\ ( /\ lastCall' # lastCall
            /\ lastCall'.op = "CanExecute"
            /\ cbPc' = cbPc
            /\ state = CircuitOpen
            /\ now - failedAt <= timeout ) =>
               ~lastCall'.ret /\ state' = CircuitOpen]_vars

\* A breaker with threshold 1 and timeout 1 has had a second failure while
\* Open, at time 1; at time 2 a CanExecute found one tick passed since that
\* failure and returned false.
C30_Witness ==
    /\ AllReturned
    /\ maxFailures = 1 /\ timeout = 1
    /\ ~recovered /\ failureCount = 2
    /\ lastFailure = 1 /\ now = 2
    /\ state = CircuitOpen
    /\ lastCall = [op |-> "CanExecute", from |-> CircuitOpen,
                   elapsed |-> 1, ret |-> FALSE]

\* The caller has changed the state with a callback registered and stands
\* at the go statement, inside its critical section.
AtGo(t) == cbPc[t] \in {"go", "go_relock"}

\* C28: with a callback registered through OnStateChange, every state
\* change eventually results in exactly one invocation of the callback
\* with the (from, to) of that change, and an operation that changes no
\* state results in none: a step that changes the state takes its caller
\* to the go statement with from and to at hand, nothing moves them while
\* the caller is there, the caller does leave it, and leaving it is the
\* one step that starts an invocation, with that pair.
C28_CallbackPerChange ==
    /\ [][/\ (state' # state /\ onStateChange # Nil) =>
                /\ \E t \in LiveCallers : ~AtGo(t) /\ AtGo(t)'
                /\ oldState' = state
                /\ invoked' = invoked
          /\ \A t \in LiveCallers :
                /\ (~AtGo(t) /\ AtGo(t)') =>
                      state' # state /\ onStateChange # Nil
                /\ (AtGo(t) /\ AtGo(t)') =>
                      UNCHANGED <<state, oldState, invoked, onStateChange>>
                /\ (AtGo(t) /\ ~AtGo(t)') =>
                      /\ invoked' = Append(invoked, <<oldState, state>>)
                      /\ state' = state
          /\ invoked' # invoked =>
                \E t \in LiveCallers : AtGo(t) /\ ~AtGo(t)'
          /\ (state' # state /\ onStateChange = Nil) => invoked' = invoked]_vars
    /\ \A t \in LiveCallers : AtGo(t) ~> ~AtGo(t)

\* The callback was registered before the first failure and has been
\* started for the opening and for the probe; a second CanExecute, which
\* changed nothing, is on its way out.
C28_Witness ==
    /\ onStateChange = TheCallback
    /\ state = CircuitHalfOpen
    /\ invoked = << <<CircuitClosed, CircuitOpen>>, <<CircuitOpen, CircuitHalfOpen>> >>
    /\ cbPc[1] = "relock" /\ cbPc[CallbackThread] = "relock"

\* C31: with maxFailures >= 1 a Closed breaker has counted fewer than
\* maxFailures failures, in every state; and every step that takes the
\* breaker into Closed leaves failureCount at 0.
C31_ClosedBelowThreshold ==
    /\ []((maxFailures >= 1 /\ state = CircuitClosed) =>
             failureCount < maxFailures)
    /\ [][(state # CircuitClosed /\ state' = CircuitClosed) =>
             failureCount' = 0]_vars

\* A breaker with threshold 2 has recovered and taken one more failure: it
\* is Closed, one below the threshold.
C31_Witness ==
    /\ AllReturned
    /\ recovered
    /\ maxFailures = 2
    /\ state = CircuitClosed
    /\ failureCount = 1
    /\ lastCall.op = "RecordFailure" /\ lastCall.from = CircuitClosed

\* C32: the breaker has no background timer: the passing of time changes
\* no field of it; its state changes only inside a RecordFailure (from
\* Closed), a RecordSuccess (from HalfOpen) or a CanExecute (in its
\* write-locked step); so an Open breaker, however long its timeout has
\* been exceeded, stays Open until a CanExecute moves it.
C32_NoBackgroundTimer ==
    [][/\ now' # now =>
             UNCHANGED <<state, failureCount, lastFailure, observed, invoked,
                         oldState, onStateChange, observer, cbMu, cbPc,
                         cbSeen, lastCall>>
       /\ state' # state =>
             \/ state = CircuitClosed /\ failureCalls' = failureCalls + 1
             \/ state = CircuitHalfOpen /\ lastCall'.op = "RecordSuccess"
             \/ \E t \in callers : cbPc[t] = "upgrade" /\ cbPc'[t] # "upgrade"
       /\ (state = CircuitOpen /\ state' # CircuitOpen) =>
             /\ state' = CircuitHalfOpen
             /\ \E t \in callers : cbPc[t] = "upgrade" /\ cbPc'[t] # "upgrade"]_vars

\* The breaker opened at time 0 with timeout 0; two ticks later, with no
\* CanExecute made, it is still Open.
C32_Witness ==
    /\ AllReturned
    /\ timeout = 0
    /\ lastFailure = 0
    /\ now = 2
    /\ state = CircuitOpen
    /\ lastCall.op = "RecordFailure"

\* The caller is inside the observer's RecordCircuitStateTransition: the
\* notification runs, or waits in a method of the breaker it has called.
InObserver(t) == cbPc[t] \in {"notify", "notify_relock", "reenter"}

C11_NilIgnored ==
    [][\A g \in Groups :
          /\ \A i \in 1 .. Len(egErrors'[g]) : egErrors'[g][i] # Nil
          /\ (nilAdded'[g] /\ ~nilAdded[g]) =>
                /\ egErrors'[g] = egErrors[g]
                /\ HasErrors(g)' = HasErrors(g)
                /\ Len(Errors(g))' = Len(Errors(g))
                /\ egErrors[g] = <<>> => ~HasErrors(g)']_vars

\* Add(nil) was called on a borrowed group that was empty, and it still is.
C11_Witness ==
    \E g \in Groups :
        /\ nilAdded[g]
        /\ holders[g] # {}
        /\ added[g] = <<>>
        /\ ~HasErrors(g)
        /\ Len(Errors(g)) = 0

\* C6: every group Get returns has zero errors at the moment Get returns
\* (HasErrors() false, Errors() of length 0), freshly minted or reused,
\* whatever Get, Add and Release calls came before, Adds to a released
\* instance included.
C6_PoolCleanliness ==
    [][\A t \in Workers :
          (egPc[t] = "get_clear" /\ egPc'[t] = "idle") =>
              \E g \in Groups :
                  /\ g = egRef'[t]
                  /\ t \in holders'[g]
                  /\ ~HasErrors(g)'
                  /\ Len(Errors(g))' = 0]_vars

\* Get has returned, empty, a stored instance that held errors when
\* sync.Pool handed it over.
C6_Witness ==
    \E t \in Workers :
        /\ egPc[t] = "idle"
        /\ dirtyGet = t
        /\ t \in holders[egRef[t]]
        /\ ~HasErrors(egRef[t])

\* C7: no instance is checked out to two borrowers at the same time, and
\* the pool never holds the same instance twice.
C7_SingleCheckout ==
    \A g \in Groups :
        /\ Cardinality(holders[g]) <= 1
        /\ poolItems[g] <= 1

\* The workers about to write g's pool reference outside g's lock
\* (eg.pool = nil, error_group.go:66).
UnlockedWriters(g) == {t \in workers : egRef[t] = g /\ egPc[t] = "put_nil"}

\* C16: every access of a group's fields by a public operation is made under
\* the group's lock, so no two concurrent calls are at an unlocked access of
\* the same group's field at the same time.
C16_NoUnlockedAccess ==
    \A g \in Groups : Cardinality(UnlockedWriters(g)) <= 1

\* Every borrower of g has released it, and no Get or Release of g is under
\* way: no Get has come after the latest Release.
Released(g) ==
    /\ g \in allocated
    /\ holders[g] = {}
    /\ \A t \in workers :
          egRef[t] = g => egPc[t] \notin {"get_clear", "put_clear", "put_nil", "put_put"}

\* C20: Release of a pooled group clears its errors and its pool reference
\* and puts it into the pool once; a further Release with no Get in between
\* finds no pool reference, does nothing and puts nothing into the pool.
C20_DoubleRelease ==
    [][\A t \in Workers :
          /\ (egPc[t] = "put_clear" /\ egPc'[t] = "put_nil") => egErrors'[egRef[t]] = <<>>
          /\ (egPc[t] = "put_nil" /\ egPc'[t] = "put_put") => egPool'[egRef[t]] = Nil
          /\ (egPc[t] = "put_put" /\ egPc'[t] = "idle") =>
                poolItems'[egRef[t]] = poolItems[egRef[t]] + 1
          /\ (Release(t) /\ Released(egRef[t])) =>
                /\ lastRelease' = "noop"
                /\ UNCHANGED <<egErrors, egPool, egMu, poolItems, egPc, allocated>>]_vars

\* A group was released, and released again with no Get in between: the
\* pool holds it once.
C20_Witness ==
    \E g \in Groups :
        /\ Released(g)
        /\ lastRelease = "noop"
        /\ \A t \in workers : egPc[t] = "idle"
        /\ egPool[g] = Nil
        /\ poolItems[g] = 1

\* C34: Release of a group that has no pool reference, because
\* NewErrorGroup made it or because it was released already, is a no-op:
\* the errors, the lock and the pool are as before and the caller has
\* returned; a group enters put only with a pool reference, and the pool's
\* content grows only at the end of a put.
C34_ReleaseWithoutPool ==
    [][\A t \in Workers :
          /\ (Release(t) /\ egPool[egRef[t]] = Nil) =>
                /\ lastRelease' = "noop"
                /\ UNCHANGED <<egErrors, egPool, egMu, poolItems, egPc,
                               allocated, added>>
          /\ (egPc[t] = "idle" /\ egPc'[t] = "put_clear") =>
                egPool[egRef[t]] # Nil
          /\ poolItems' # poolItems =>
                \E u \in Workers : egPc[u] = "put_put" /\ egPc'[u] = "idle"]_vars

\* A standalone group holding two errors was released: it still holds
\* them, and the pool holds nothing.
C34_Witness ==
    /\ \A t \in workers : egPc[t] = "idle"
    /\ lastRelease = "noop"
    /\ egPool[1] = Nil
    /\ poolItems[1] = 0
    /\ egErrors[1] = <<ErrA, ErrB>>

\* HasErrors (error_group.go:108-113), Error (116-138) and Join (158-163)
\* of the group whose slice is modelled.
SliceHasErrors == slLen > 0
SliceError ==
    LET errs == SliceErrors IN
    CASE Len(errs) = 0 -> ""
      [] Len(errs) = 1 -> Message(errs[1])
      [] OTHER -> WriteLines(Itoa(Len(errs)) \o " errors occurred:\n", errs, 0)
SliceJoin ==
    LET kept == SelectSeq(SliceErrors, LAMBDA e : e # Nil) IN
    IF kept = <<>> THEN NilError ELSE Aggregate(kept)

\* C35: Clear empties the group and leaves its pool reference as it is:
\* right after it HasErrors() is false, Error() is the empty string,
\* Errors() is empty and Join() is nil, and the array is kept; from then on
\* the group holds exactly the errors added since, as a fresh group would,
\* with no Get or Release needed.
C35_ClearForReuse ==
    [][/\ ClearSlice =>
             /\ ~SliceHasErrors'
             /\ SliceError' = ""
             /\ Clone(backing', slLen').len = 0
             /\ SliceErrors' = <<>>
             /\ SliceJoin' = NilError
             /\ slPool' = slPool
             /\ Len(backing') = Len(backing)
       /\ SliceErrors' = slAdded'
       /\ SliceHasErrors' <=> slAdded' # <<>>]_vars

\* A group that held errA twice was emptied and given errB: it holds errB
\* alone, in the array it had, where the second errA still lies behind the
\* slice's end.
C35_Witness ==
    /\ slPool = ThePool
    /\ slLen = 1
    /\ SliceErrors = <<ErrB>>
    /\ SliceError = "b"
    /\ Len(backing) >= 2
    /\ backing[2] = ErrA

\* What the claim C21 says of Join() of g: nil for an empty group, otherwise
\* an aggregate that errors.Is finds exactly the group's errors in.
JoinContract(g) ==
    IF egErrors[g] = <<>>
       THEN Join(g) = NilError
       ELSE /\ ~Join(g).nil
            /\ \A e \in Errs :
                  Is(Join(g), e) <=> (\E i \in 1 .. Len(egErrors[g]) : egErrors[g][i] = e)

C22_IndependentCopy ==
    [][IF slLen' = slLen /\ slPool' = slPool
          THEN SliceErrors' = SliceErrors
          ELSE GotErrors' = GotErrors]_vars

\* Errors() returned two errors and the caller overwrote the first with nil;
\* the group was cleared after that and its array reused for another error.
C22_Witness ==
    /\ got.held
    /\ GotErrors = <<Nil, ErrA>>
    /\ SliceErrors = <<ErrB>>
    /\ backing[1] = ErrB

\* C26: NewErrorGroupPool never fails: a negative initial capacity is
\* replaced by the default capacity 4, and a group of such a pool accepts and
\* reports errors like one of a pool built with a valid capacity, whose
\* Errors() is the sequence of the errors added, more errors than the
\* capacity included.
C26_NegativeCapacity ==
    /\ ~slPanic
    /\ CorrectedCapacity(slInitial) >= 0
    /\ slInitial < 0 => CorrectedCapacity(slInitial) = 4
    /\ Len(backing) >= CorrectedCapacity(slInitial)
    /\ SliceErrors = slAdded
    /\ (slLen > 0) = (slAdded # <<>>)

\* A group of a pool built with capacity -1 holds five errors, one more than
\* the default capacity, and reports them.
C26_Witness ==
    /\ slInitial = -1
    /\ slLen = 5
    /\ slLen > CorrectedCapacity(slInitial)
    /\ SliceErrors = slAdded
    /\ slAdded[1] = ErrA /\ slAdded[5] = ErrB

\* The arguments of the Adds made to g since it was last empty, in order.
AddedErrors(g) == added[g]

\* The errors of a sequence, as a bag: how often each one occurs.
Occurrences(seq, e) == Cardinality({i \in 1 .. Len(seq) : seq[i] = e})

\* C8: when every worker that called Add with a non-nil error on the
\* shared group has returned, Errors() has one entry per Add made since
\* the group was last empty, and holds each added error as often as it
\* was added.
C8_NoLostAdd ==
    (\A t \in workers : egPc[t] = "idle") =>
        \A g \in allocated :
            /\ Len(Errors(g)) = Len(added[g])
            /\ \A e \in Errs :
                  Occurrences(Errors(g), e) = Occurrences(AddedErrors(g), e)

\* Worker 1 and another worker have added their errors to the shared group,
\* and all Adds have returned.
C8_Witness ==
    /\ \A t \in workers : egPc[t] = "idle"
    /\ Cardinality(workers) >= 2
    /\ \A e \in Errs : Occurrences(AddedErrors(1), e) >= 1
    /\ Len(Errors(1)) = Len(added[1])

\* Section 4.1's rendering of a sequence of errors: nothing for none, the
\* message alone for one, and for n >= 2 the count line followed by the
\* lines "<i>: <message>", i from 1 to n, each ended by a line break.
NumberedLine(seq, i) == ToString(i) \o ": " \o Message(seq[i]) \o "\n"
RECURSIVE NumberedLines(_, _)
NumberedLines(seq, from) ==
    IF from > Len(seq) THEN ""
    ELSE NumberedLine(seq, from) \o NumberedLines(seq, from + 1)
Rendering(seq) ==
    IF Len(seq) = 0 THEN ""
    ELSE IF Len(seq) = 1 THEN Message(seq[1])
    ELSE ToString(Len(seq)) \o " errors occurred:\n" \o NumberedLines(seq, 1)

\* C9: after Add calls with no Clear or Release in between, Errors() is the
\* sequence of the non-nil arguments in call order, and Join() and Error()
\* are built from exactly that sequence.
C9_FaithfulSequence ==
    (\A t \in workers : egPc[t] = "idle") =>
        \A g \in allocated :
            /\ Errors(g) = AddedErrors(g)
            /\ Join(g) = IF added[g] = <<>> THEN NilError ELSE Aggregate(AddedErrors(g))
            /\ Error(g) = Rendering(AddedErrors(g))

\* Adds of errA, nil and errB, in some order with errA before errB, have
\* returned.
C9_Witness ==
    /\ \A t \in workers : egPc[t] = "idle"
    /\ AddedErrors(1) = <<ErrA, ErrB>>
    /\ nilAdded[1]
    /\ Errors(1) = <<ErrA, ErrB>>

\* C10: Error() of an empty group is the empty string, of a group with one
\* error that error's message, and of a group with n >= 2 errors the line
\* "<n> errors occurred:" followed by one line "<i>: <message>" per error,
\* i from 1 to n in insertion order.
C10_ErrorRendering ==
    (\A t \in workers : egPc[t] = "idle") =>
        \A g \in allocated :
            /\ Error(g) = Rendering(egErrors[g])
            /\ egErrors[g] = <<>> => Error(g) = ""
            /\ egErrors[g] = <<ErrA>> => Error(g) = "a"
            /\ egErrors[g] = <<ErrA, ErrB>> =>
                  Error(g) = "2 errors occurred:\n1: a\n2: b\n"

\* A group of ten errors has been rendered with a two-digit count and index.
C10_Witness ==
    /\ \A t \in workers : egPc[t] = "idle"
    /\ Len(egErrors[1]) = 10
    /\ egErrors[1][10] = ErrB
    /\ Error(1) = Rendering(egErrors[1])

\* C36: ToSerialization returns a snapshot taken under the read lock: from
\* its RLock to its return the group's errors do not change, also while
\* other workers call Add and Clear, so that error_count is the number of
\* entries, which is the number of errors the group held at the instant of
\* the RLock; the entries are those errors' in the order they were added;
\* an empty group gives error_count 0 and no entries.
C36_ConsistentSnapshot ==
    \A t \in workers :
        /\ Serializing(t) =>
              /\ egErrors[egRef[t]] = ser[t].at
              /\ added[egRef[t]] = ser[t].at
              /\ ser[t].count = Len(ser[t].at)
              /\ \A i \in 1 .. Len(ser[t].entries) :
                    ser[t].entries[i] = toSerializableError(ser[t].at[i])
        /\ ser[t].done =>
              /\ ser[t].count = Len(ser[t].entries)
              /\ Len(ser[t].entries) = Len(ser[t].at)
              /\ \A i \in 1 .. Len(ser[t].at) :
                    ser[t].entries[i] = toSerializableError(ser[t].at[i])
              /\ ser[t].at = <<>> => ser[t].count = 0 /\ ser[t].entries = <<>>

\* C36 witness: worker 2 serialized the empty group and worker 1 the group
\* holding errB and errA, which has been cleared and added to since.
C36_Witness ==
    /\ ser[2].done /\ ser[2].at = <<>> /\ ser[2].count = 0
    /\ ser[1].done /\ ser[1].at = <<ErrB, ErrA>> /\ ser[1].count = 2
    /\ ser[1].entries = <<[message |-> "b", type |-> "standard"],
                          [message |-> "a", type |-> "ewrap"]>>
    /\ egErrors[1] = <<ErrA>>
    /\ egPc[2] = "add_store"

\* C37 (as amended): ErrorOrNil returns nil exactly when the group holds no
\* errors at the call, and otherwise the group itself, not a snapshot: the
\* returned error reports what the group holds now, so a later Clear, or a
\* later Release of the group while its pool reference is set, makes its
\* Error() the empty string; a Release of a group without a pool reference
\* leaves what it reports as it was.
C37_ReturnsGroupItself ==
    /\ [](\A t \in workers :
              returned[t].called =>
                  /\ returned[t].nil <=> returned[t].had = <<>>
                  /\ ~returned[t].nil =>
                        /\ returned[t].group = egRef[t]
                        /\ ReturnedError(t) = Error(egRef[t]))
    /\ [][\A u \in workers, t \in workers :
              /\ (HoldsError(t) /\ (Clear(u) \/ PutClear(u))) =>
                    (ReturnedError(t))' = ""
              /\ (HoldsError(t) /\ Release(u) /\ egPool[egRef[u]] = Nil) =>
                    (ReturnedError(t))' = ReturnedError(t)]_vars

\* C37 witness: worker 2's ErrorOrNil returned nil for the empty group;
\* worker 1's returned the group holding errB and errA, which was released
\* to its pool since, and that error now reports nothing.
C37_Witness ==
    /\ returned[2].called /\ returned[2].nil /\ returned[2].had = <<>>
    /\ HoldsError(1) /\ returned[1].had = <<ErrB, ErrA>>
    /\ returned[1].group = 1
    /\ lastRelease = "put" /\ egPool[1] = Nil
    /\ \A t \in workers : egPc[t] = "idle"
    /\ ReturnedError(1) = ""

\* C37 as stated: any later Clear or Release of the group, with or without
\* a pool reference, makes the error ErrorOrNil returned report no errors.
C37_AnyReleaseClears ==
    [][\A u \in workers, t \in workers :
          (/\ HoldsError(t)
           /\ \/ Clear(u)
              \/ PutClear(u)
              \/ Release(u) /\ egPc'[u] = "idle") =>
              (ReturnedError(t))' = ""]_vars

(***************************************************************************)
(* Properties of the retry bookkeeping.                                    *)
(***************************************************************************)
\* C38: retry bookkeeping is a bounded counter.  For an error made with
\* WithRetry(M, d) that is no validation error, CanRetry returns true
\* exactly while fewer than M IncrementRetry calls were made, so it is
\* false from the M-th call on and never true again; each IncrementRetry
\* raises CurrentAttempt by exactly one; on an error without retry info
\* CanRetry returns false and IncrementRetry changes nothing.
C38_BoundedRetryCounter ==
    /\ [](/\ retryInfo.ok => retryInfo.CurrentAttempt = increments
          /\ (Retryable /\ lastTrueAt # Never) =>
                lastTrueAt < retryInfo.MaxAttempts
          /\ ~retryInfo.ok => canRetry # "true" /\ retryInfo = NoRetryInfo)
    /\ [][/\ (CanRetry /\ Retryable) =>
                (canRetry' = "true" <=> increments < retryInfo.MaxAttempts)
          /\ (CanRetry /\ ~retryInfo.ok) => canRetry' = "false"
          /\ (IncrementRetry /\ retryInfo.ok) =>
                /\ retryInfo'.CurrentAttempt = retryInfo.CurrentAttempt + 1
                /\ retryInfo'.MaxAttempts = retryInfo.MaxAttempts
          /\ (IncrementRetry /\ ~retryInfo.ok) =>
                UNCHANGED <<retryInfo, errorContext, canRetry>>
          /\ canRetry = "false" => canRetry' = "false"
          /\ errorContext' = errorContext]_vars

\* C38 witness: WithRetry(3, d); CanRetry was true after the second
\* IncrementRetry and is false after the third.
C38_Witness ==
    /\ Retryable /\ retryInfo.MaxAttempts = 3
    /\ retryInfo.CurrentAttempt = 3 /\ increments = 3
    /\ lastTrueAt = 2
    /\ canRetry = "false"

====
